---- MODULE Spec2Model ----
(***************************************************************************)
(* A model of src/src/internal.cpp (CaDiCaL with global preprocessing).    *)
(*                                                                         *)
(* Three specifications share the variables:                                 *)
(*   Spec    the two entry points, solve and propagate_assumptions, and    *)
(*           the CDCL loop: the order of the stages and of the checks of   *)
(*           one loop iteration. The collaborators that are not part of    *)
(*           internal.cpp (propagate, analyze, decide, ...) answer         *)
(*           nondeterministically.                                         *)
(*   SpecGP  global preprocessing on concrete small formulas: the          *)
(*           assignment, the trail, unit propagation, conflict analysis,   *)
(*           least_conditional_part and its helpers.                       *)
(*   SpecLim the limits over a sequence of solve calls on one solver:      *)
(*           init_preprocessing_limits and init_search_limits.             *)
(***************************************************************************)
EXTENDS Integers, Sequences, FiniteSets, TLC

VARIABLES
  \* ---- where the program is
  entry,            \* the entry point running: "none", "solve", "propagate_assumptions"
  pc,               \* position inside it
  \* ---- fields of Internal
  unsat,            \* Internal::unsat
  unsat_constraint, \* Internal::unsat_constraint
  level,            \* Internal::level
  iterating,        \* Internal::iterating
  external_prop,    \* Internal::external_prop
  max_var,          \* Internal::max_var
  opts,             \* Internal::opts (the options the modelled code reads)
  \* ---- locals of solve / propagate_assumptions / cdcl_loop_with_inprocessing
  preprocess_only,  \* the parameter of solve
  res,              \* the local res of the function running
  ret,              \* the value the entry point returned
  kpos,             \* the check of the if-chain the loop iteration is at
  \* ---- history of the current call
  last_assumption_level, \* the local of propagate_assumptions
  calls,            \* entry-point calls made on this solver so far
  ran,              \* the stages of solve that ran, in order, each with its result
  evald,            \* the checks of the current loop iteration, each with its answer
  acted,            \* what the current loop iteration did
  \* ---- fields of Internal that global preprocessing reads and writes
  clauses,          \* Internal::clauses: each clause with its redundant and garbage flags
  vals,             \* Internal::vals: the value of each variable (-1, 0, 1)
  vlevel,           \* var (lit).level
  reasons,          \* var (lit).reason: the literals of the reason clause, <<>> for none
  trail,            \* Internal::trail
  conflict,         \* Internal::conflict: the literals of the falsified clause, <<>> for none
  globalmarks,      \* Internal::globalmarks: the literals whose bit is set
  global_try,       \* Internal::global_try
  \* ---- frames of global_preprocess and least_conditional_part
  gp,               \* locals of global_preprocess: count, i, touched_literals, ...
  lcp,              \* locals of least_conditional_part: neg_alpha_c, times_touched, ...
  timedOut,         \* time () - original_time > opts.globaltimelim has been seen
  cover,            \* arguments and locals of greedySetCover / greedySetCoverSpecial
  \* ---- history
  emitted,          \* the last call of add_clause: the clause, the clause set before and after
  late_assume,      \* a search_assume_decision was made with unsat set
  \* ---- fields of Internal that the initialisation of the limits reads and writes
  lim,              \* Internal::lim: the limits and lim.initialized
  inc,              \* Internal::inc: the increments
  stats,            \* Internal::stats: conflicts and decisions
  stable,           \* Internal::stable
  averages,         \* Internal::averages: the current and the saved trackers
  last,             \* Internal::last: the marks reset with the limits
  reluctant         \* Internal::reluctant: the period it is enabled with, 0 for disabled

ctlVars == <<entry, pc, unsat, unsat_constraint, level, iterating, external_prop,
             max_var, opts, preprocess_only, res, ret, kpos, last_assumption_level,
             calls, ran, evald, acted>>

gpVars == <<clauses, vals, vlevel, reasons, trail, conflict, globalmarks, global_try,
            gp, lcp, timedOut, emitted, late_assume, cover>>

limVars == <<lim, inc, stats, stable, averages, last, reluctant>>

vars == <<ctlVars, gpVars, limVars>>

(***************************************************************************)
(* Bounds                                                                  *)
(***************************************************************************)
\* Decision levels of the abstract search: with MaxLevel decisions every variable
\* is assigned.
MaxLevel == 2
\* Calls of an entry point on one solver.
MaxCalls == 2

(***************************************************************************)
(* The CDCL loop: the if-chain of one iteration.                           *)
(***************************************************************************)

\* Mutant: restart and rephase change places in the chain.
LoopOrderRephaseFirst ==
  << "unsat", "unsat_constraint", "propagate", "iterating", "external_propagate",
     "satisfied", "search_limits_hit", "terminated_asynchronously",
     "rephasing", "restarting", "reducing", "probing", "subsuming", "eliminating",
     "compacting", "conditioning", "decide" >>

\* Mutant: the loop propagates before it looks at the UNSAT flag.
LoopOrderUnsatLate ==
  << "propagate", "unsat", "unsat_constraint", "iterating", "external_propagate",
     "satisfied", "search_limits_hit", "terminated_asynchronously",
     "restarting", "rephasing", "reducing", "probing", "subsuming", "eliminating",
     "compacting", "conditioning", "decide" >>

\* The checks of one iteration of cdcl_loop_with_inprocessing, in the order of the
\* else-if chain.
LoopOrder ==
  << "unsat", "unsat_constraint", "propagate", "iterating", "external_propagate",
     "satisfied", "search_limits_hit", "terminated_asynchronously",
     "restarting", "rephasing", "reducing", "probing", "subsuming", "eliminating",
     "compacting", "conditioning", "decide" >>

\* The checks of one iteration of the loop of propagate_assumptions.
AssumeOrder ==
  << "unsat", "unsat_constraint", "propagate", "external_propagate", "satisfied",
     "search_limits_hit", "terminated_asynchronously", "decide" >>

Chain == IF entry = "propagate_assumptions" THEN AssumeOrder ELSE LoopOrder

\* The inprocessing step a due-predicate starts.
StepOf(c) ==
  CASE c = "restarting" -> "restart"
    [] c = "rephasing" -> "rephase"
    [] c = "reducing" -> "reduce"
    [] c = "probing" -> "probe"
    [] c = "subsuming" -> "subsume"
    [] c = "eliminating" -> "elim"
    [] c = "compacting" -> "compact"
    [] c = "conditioning" -> "condition"

InprocChecks == { "restarting", "rephasing", "reducing", "probing", "subsuming",
                  "eliminating", "compacting", "conditioning" }

\* Inprocessing steps that leave the solver at decision level 0.
RootSteps == { "restart", "probe", "subsume", "elim", "compact", "condition" }

(***************************************************************************)
(* Collaborators of the search driver that internal.cpp calls and does not *)
(* define: what they may do to level, unsat and iterating.                 *)
(***************************************************************************)

\* analyze (): at level 0 the conflict is a root conflict and the solver becomes
\* UNSAT; above it a clause is learned and the solver backtracks to a lower level
\* (a learned unit backtracks to level 0 and is pending as 'iterating').
AnalyzeOutcomes ==
  IF level = 0
    THEN { [level |-> 0, unsat |-> TRUE, iterating |-> iterating] }
    ELSE { [level |-> l, unsat |-> unsat, iterating |-> it] :
             l \in 0..(level - 1), it \in { iterating, TRUE } }

\* satisfied (): with every variable assigned and no conflict the formula is
\* satisfied; below that either answer is possible.
SatisfiedAnswers == IF level >= max_var THEN { TRUE } ELSE BOOLEAN

\* external_propagate () and external_check_solution (): without an external
\* propagator they succeed; with one they may report a conflict or set unsat.
ExternalAnswers == IF external_prop THEN { "ok", "conflict", "unsat" } ELSE { "ok" }

\* decide (): 0 after pushing a new decision level, 20 when an assumption is
\* falsified.
DecideResults == IF level < max_var THEN { 0, 20 } ELSE { 20 }

(***************************************************************************)
(* One check of the if-chain of a loop iteration.                          *)
(***************************************************************************)

\* The log of the iteration after check c answered ans.
Logged(c, ans) == (IF kpos = 1 THEN <<>> ELSE evald) \o << <<c, ans>> >>

\* The check did not match: the chain goes on with the next check.
NoMatch(c) ==
  /\ kpos' = kpos + 1
  /\ evald' = Logged(c, FALSE)
  /\ acted' = "none"
  /\ UNCHANGED <<pc, res, unsat, level, iterating>>

\* A branch was taken (lg is the log of the iteration), it did act, and the loop
\* goes round.
GoRound(lg, act, u, l, it) ==
  /\ kpos' = 1
  /\ evald' = lg
  /\ acted' = act
  /\ unsat' = u
  /\ level' = l
  /\ iterating' = it
  /\ UNCHANGED <<pc, res>>

\* A branch was taken and the loop ends with r: 'res = r' or 'break'.
Leave(lg, act, r) ==
  /\ kpos' = 1
  /\ evald' = lg
  /\ acted' = act
  /\ res' = r
  /\ pc' = "after_loop"
  /\ UNCHANGED <<unsat, level, iterating>>

\* analyze () as the act of the iteration.
GoAnalyze(lg) ==
  \E o \in AnalyzeOutcomes : GoRound(lg, "analyze", o.unsat, o.level, o.iterating)

\* Mutant: the result of external_check_solution is ignored.
FoundModelUnchecked(lg) ==
  \E chk \in ExternalAnswers :
    Leave(Append(Append(lg, <<"external_check_solution", chk = "ok">>),
                 <<"satisfied_again", TRUE>>), "result10", 10)

\* The 'found model' branch: external_check_solution, then satisfied () again.
FoundModel(lg) ==
  \E chk \in ExternalAnswers :
    LET lg2 == Append(lg, <<"external_check_solution", chk = "ok">>) IN
    CASE chk = "unsat" -> GoRound(lg2, "continue", TRUE, level, iterating)
      [] chk = "conflict" -> GoAnalyze(lg2)
      [] chk = "ok" ->
           \E again \in SatisfiedAnswers :
             IF again THEN Leave(Append(lg2, <<"satisfied_again", TRUE>>), "result10", 10)
                      ELSE GoRound(Append(lg2, <<"satisfied_again", FALSE>>), "nothing",
                                   unsat, level, iterating)

\* The external propagation branch: '!external_propagate () || unsat'.
ExternalPropagate(c) ==
  \E ext \in ExternalAnswers :
    CASE ext = "ok" -> NoMatch(c)
      [] ext = "unsat" -> GoRound(Logged(c, TRUE), "continue", TRUE, level, iterating)
      [] ext = "conflict" -> GoAnalyze(Logged(c, TRUE))

\* Mutant: the loop ends after every decision ('while (res)' for 'while (!res)').
DecideOnce(c) ==
  \E d \in DecideResults : Leave(Logged(c, TRUE), "decide", d)

\* The last branch of the chain: 'res = decide ();', in propagate_assumptions
\* after 'if (level >= last_assumption_level) break;'.
Decide(c) ==
  IF entry = "propagate_assumptions" /\ level >= last_assumption_level
    THEN Leave(Logged(c, TRUE), "stop", 0)
    ELSE \E d \in DecideResults :
           IF d = 0 THEN GoRound(Logged(c, TRUE), "decide", unsat, level + 1, iterating)
                    ELSE Leave(Logged(c, TRUE), "decide", d)

\* An inprocessing step that is due.
Inprocess(c) ==
  \E due \in BOOLEAN :
    IF ~due THEN NoMatch(c)
    ELSE \E u \in { unsat, StepOf(c) \in { "probe", "subsume", "elim", "condition" } } :
           GoRound(Logged(c, TRUE), StepOf(c), u,
                   IF StepOf(c) \in RootSteps THEN 0 ELSE level, iterating)

\* The check named c of the chain, and the branch it guards.
Check(c) ==
  CASE c = "unsat" ->
         IF unsat THEN Leave(Logged(c, TRUE), "result20", 20) ELSE NoMatch(c)
    [] c = "unsat_constraint" ->
         IF unsat_constraint THEN Leave(Logged(c, TRUE), "result20", 20)
                             ELSE NoMatch(c)
    [] c = "propagate" ->
         \E ok \in BOOLEAN : IF ok THEN NoMatch(c) ELSE GoAnalyze(Logged(c, TRUE))
    [] c = "iterating" ->
         IF iterating THEN GoRound(Logged(c, TRUE), "iterate", unsat, level, FALSE)
                      ELSE NoMatch(c)
    [] c = "external_propagate" -> ExternalPropagate(c)
    [] c = "satisfied" ->
         \E sat \in SatisfiedAnswers :
           IF sat THEN FoundModel(Logged(c, TRUE)) ELSE NoMatch(c)
    [] c = "search_limits_hit" ->
         \E hit \in BOOLEAN :
           IF hit THEN Leave(Logged(c, TRUE), "stop", 0) ELSE NoMatch(c)
    [] c = "terminated_asynchronously" ->
         \E term \in BOOLEAN :
           IF term THEN Leave(Logged(c, TRUE), "stop", 0) ELSE NoMatch(c)
    [] c \in InprocChecks -> Inprocess(c)
    [] c = "decide" -> Decide(c)

\* One step of 'while (!res)': the next check of the current iteration.
LoopCheck ==
  /\ pc = "loop"
  /\ Check(Chain[kpos])
  /\ UNCHANGED <<entry, unsat_constraint, external_prop, max_var, opts,
                 preprocess_only, ret, last_assumption_level, calls, ran>>
  /\ UNCHANGED <<gpVars, limVars>>

(***************************************************************************)
(* solve: the stages and what lets each run.                               *)
(***************************************************************************)

\* The stages of solve in the order of its statements.
SolveOrder ==
  << "already_solved", "restore_clauses", "init_limits", "preprocess",
     "global_preprocess", "local_search", "lucky_phases", "cdcl_loop", "finalize" >>

RECURSIVE IndexOf(_, _, _)
IndexOf(seq, x, i) ==
  IF i > Len(seq) THEN 0 ELSE IF seq[i] = x THEN i ELSE IndexOf(seq, x, i + 1)

\* The stage after stage s.
NextStage(s) == SolveOrder[IndexOf(SolveOrder, s, 1) + 1]

\* Mutant: local search does not look at the preprocess-only mode.
StageGuardAnyMode(s) ==
  CASE s = "restore_clauses" -> res = 0
    [] s = "init_limits" -> res = 0
    [] s = "preprocess" -> res = 0 /\ level = 0
    [] s = "global_preprocess" -> res = 0 /\ opts.globalpreprocess
    [] s = "local_search" -> res = 0 /\ level = 0
    [] s = "lucky_phases" -> ~preprocess_only /\ res = 0 /\ level = 0
    [] s = "cdcl_loop" -> ~preprocess_only /\ (res = 0 \/ (res = 10 /\ external_prop))
    [] OTHER -> TRUE

\* The condition under which solve runs stage s.
StageGuard(s) ==
  CASE s = "restore_clauses" -> res = 0
    [] s = "init_limits" -> res = 0
    [] s = "preprocess" -> res = 0 /\ level = 0
    [] s = "global_preprocess" -> res = 0 /\ opts.globalpreprocess
    [] s = "local_search" -> ~preprocess_only /\ res = 0 /\ level = 0
    [] s = "lucky_phases" -> ~preprocess_only /\ res = 0 /\ level = 0
    [] s = "cdcl_loop" -> ~preprocess_only /\ (res = 0 \/ (res = 10 /\ external_prop))
    [] OTHER -> TRUE

\* Stage s ran and left r in res.
Ran(s, r) == ran' = Append(ran, [stage |-> s, res |-> r])

\* already_solved (): the result, and what it does to unsat and level, when the
\* root-level propagation answers ok.
AlreadySolved(ok) ==
  IF unsat \/ unsat_constraint
    THEN [res |-> 20, unsat |-> unsat, level |-> level]
    ELSE LET l == IF level # 0 /\ ~opts.ilb THEN 0 ELSE level
             root_conflict == l = 0 /\ ~ok
             r == IF root_conflict THEN 20 ELSE 0
         IN [res |-> IF max_var = 0 /\ r = 0 THEN 10 ELSE r,
             unsat |-> unsat \/ root_conflict,
             level |-> l]

\* An entry point is called: solve (preprocess_only) or propagate_assumptions ().
Call ==
  /\ pc \in { "idle", "returned" }
  /\ calls < MaxCalls
  /\ calls' = calls + 1
  /\ \E e \in { "solve", "propagate_assumptions" }, po \in BOOLEAN,
        lal \in 0..max_var :
       /\ entry' = e
       /\ preprocess_only' = (e = "solve" /\ po)
       /\ last_assumption_level' = IF e = "solve" THEN 0 ELSE lal
  /\ pc' = "already_solved"
  /\ res' = 0
  /\ ran' = <<>>
  /\ evald' = <<>>
  /\ acted' = "none"
  /\ kpos' = 1
  /\ UNCHANGED <<unsat, unsat_constraint, level, iterating, external_prop, max_var,
                 opts, ret>>
  /\ UNCHANGED <<gpVars, limVars>>

\* 'int res = already_solved ();' and, in solve, the backtrack of the
\* preprocess-only mode.
SolveAlreadySolved ==
  /\ pc = "already_solved"
  /\ \E ok \in BOOLEAN :
       LET a == AlreadySolved(ok) IN
       /\ res' = a.res
       /\ unsat' = a.unsat
       /\ level' = IF entry = "solve" /\ a.res = 0 /\ preprocess_only THEN 0
                   ELSE a.level
       /\ Ran("already_solved", a.res)
  /\ pc' = IF entry = "solve" THEN NextStage("already_solved") ELSE "pa_restore"
  /\ UNCHANGED <<entry, unsat_constraint, iterating, external_prop, max_var, opts,
                 preprocess_only, ret, kpos, last_assumption_level, calls, evald,
                 acted>>
  /\ UNCHANGED <<gpVars, limVars>>

\* A stage whose condition does not hold is passed over.
SolveSkip ==
  /\ entry = "solve"
  /\ pc \in { "restore_clauses", "init_limits", "preprocess", "global_preprocess",
              "local_search", "lucky_phases", "cdcl_loop" }
  /\ ~StageGuard(pc)
  /\ pc' = NextStage(pc)
  /\ UNCHANGED <<entry, unsat, unsat_constraint, level, iterating, external_prop,
                 max_var, opts, preprocess_only, res, ret, kpos,
                 last_assumption_level, calls, ran, evald, acted>>
  /\ UNCHANGED <<gpVars, limVars>>

\* restore_clauses (): nothing to restore, or the external restore followed by a
\* root-level propagation.
RestoreClauses(tainted, sets_unsat, ok) ==
  IF opts.restoreall <= 1 /\ ~tainted
    THEN [res |-> 0, unsat |-> unsat]
    ELSE LET u == unsat \/ sets_unsat
             root_conflict == ~u /\ level = 0 /\ ~ok
         IN [res |-> IF root_conflict THEN 20 ELSE 0, unsat |-> u \/ root_conflict]

SolveRestore ==
  /\ entry = "solve" /\ pc = "restore_clauses" /\ StageGuard(pc)
  /\ \E tainted \in BOOLEAN, sets_unsat \in BOOLEAN, ok \in BOOLEAN :
       LET r == RestoreClauses(tainted, sets_unsat, ok) IN
       /\ res' = r.res
       /\ unsat' = r.unsat
       /\ Ran(pc, r.res)
  /\ pc' = NextStage(pc)
  /\ UNCHANGED <<entry, unsat_constraint, level, iterating, external_prop, max_var,
                 opts, preprocess_only, ret, kpos, last_assumption_level, calls,
                 evald, acted>>
  /\ UNCHANGED <<gpVars, limVars>>

\* init_preprocessing_limits () and, outside the preprocess-only mode,
\* init_search_limits ().
SolveInitLimits ==
  /\ entry = "solve" /\ pc = "init_limits" /\ StageGuard(pc)
  /\ Ran(pc, res)
  /\ pc' = NextStage(pc)
  /\ UNCHANGED <<entry, unsat, unsat_constraint, level, iterating, external_prop,
                 max_var, opts, preprocess_only, res, ret, kpos,
                 last_assumption_level, calls, evald, acted>>
  /\ UNCHANGED <<gpVars, limVars>>

\* Mutant: preprocess drops 'if (unsat) return 20;'.
PreprocessNoTest(u) == 0

\* preprocess (): the rounds may find the formula unsatisfiable.
Preprocess(u) == IF u THEN 20 ELSE 0

SolvePreprocess ==
  /\ entry = "solve" /\ pc = "preprocess" /\ StageGuard(pc)
  /\ \E u \in { unsat } \cup (IF max_var # 0 THEN { TRUE } ELSE {}) :
       /\ unsat' = u
       /\ res' = Preprocess(u)
       /\ Ran(pc, Preprocess(u))
  /\ pc' = NextStage(pc)
  /\ UNCHANGED <<entry, unsat_constraint, level, iterating, external_prop, max_var,
                 opts, preprocess_only, ret, kpos, last_assumption_level, calls,
                 evald, acted>>
  /\ UNCHANGED <<gpVars, limVars>>

\* global_preprocess () or global_preprocess_chess (), as the caller sees it: every
\* return of both is 'return 20' under 'if (unsat)' or the 'return 0' that follows
\* such a test. Then solve backtracks.
GlobalPreprocess(u) == IF u THEN 20 ELSE 0

SolveGlobal ==
  /\ entry = "solve" /\ pc = "global_preprocess" /\ StageGuard(pc)
  /\ \E u \in { unsat, TRUE } :
       /\ unsat' = u
       /\ res' = GlobalPreprocess(u)
       /\ Ran(pc, GlobalPreprocess(u))
  /\ level' = 0
  /\ pc' = NextStage(pc)
  /\ UNCHANGED <<entry, unsat_constraint, iterating, external_prop, max_var,
                 opts, preprocess_only, ret, kpos, last_assumption_level, calls,
                 evald, acted>>
  /\ UNCHANGED <<gpVars, limVars>>

\* local_search () up to the end of its rounds: 0 at once when there is nothing to
\* do, else what the rounds of walk_round gave.
LocalSearchRounds(has_constraint, walk) ==
  IF unsat \/ max_var = 0 \/ ~opts.walk \/ has_constraint THEN 0 ELSE walk

SolveLocalSearch ==
  /\ entry = "solve" /\ pc = "local_search" /\ StageGuard(pc)
  /\ \E has_constraint \in BOOLEAN, walk \in { 0, 10, 20 } :
       LET r == LocalSearchRounds(has_constraint, walk) IN
       /\ \E u \in { unsat, unsat \/ r = 20 } : unsat' = u
       /\ pc' = CASE r = 10 -> "saved_phases"
                  [] r = 20 -> "failed_assumptions"
                  [] OTHER -> NextStage(pc)
       /\ IF r = 0 THEN Ran(pc, 0) ELSE ran' = ran
       /\ res' = IF r = 10 THEN 0 ELSE r
  /\ UNCHANGED <<entry, unsat_constraint, level, iterating, external_prop, max_var,
                 opts, preprocess_only, ret, kpos, last_assumption_level, calls,
                 evald, acted>>
  /\ UNCHANGED <<gpVars, limVars>>

\* One iteration of the loop of try_to_satisfy_formula_by_saved_phases; its result
\* is the result of local_search.
TrySavedPhases ==
  /\ pc = "saved_phases"
  /\ \E sat \in SatisfiedAnswers, d \in DecideResults, ok \in BOOLEAN :
       LET r == IF sat THEN 10 ELSE IF d # 0 THEN 20 ELSE 0
           stop == r # 0 \/ ~ok
       IN
       /\ res' = r
       /\ level' = IF sat \/ d # 0 THEN level ELSE IF ok THEN level + 1 ELSE 0
       /\ pc' = IF stop THEN NextStage("local_search") ELSE pc
       /\ IF stop THEN Ran("local_search", r) ELSE ran' = ran
  /\ UNCHANGED <<entry, unsat, unsat_constraint, iterating, external_prop, max_var,
                 opts, preprocess_only, ret, kpos, last_assumption_level, calls,
                 evald, acted>>
  /\ UNCHANGED <<gpVars, limVars>>

\* One iteration of the loop of produce_failed_assumptions: a decision, then
\* 'while (!unsat && !propagate ()) analyze ();', which ends at a lower level or
\* with unsat.
ProduceFailedAssumptions ==
  /\ pc = "failed_assumptions"
  /\ \E d \in DecideResults, ok \in BOOLEAN, l \in 0..level, u \in BOOLEAN :
       LET stop == unsat \/ d # 0 IN
       /\ level' = IF stop THEN level ELSE IF ok THEN level + 1 ELSE l
       /\ unsat' = IF stop \/ ok THEN unsat ELSE u
       /\ pc' = IF stop THEN NextStage("local_search") ELSE pc
       /\ IF stop THEN Ran("local_search", res) ELSE ran' = ran
  /\ UNCHANGED <<entry, unsat_constraint, iterating, external_prop, max_var, opts,
                 preprocess_only, res, ret, kpos, last_assumption_level, calls,
                 evald, acted>>
  /\ UNCHANGED <<gpVars, limVars>>

\* lucky_phases (): 10 with every variable assigned, 20 possibly with unsat, or 0.
SolveLucky ==
  /\ entry = "solve" /\ pc = "lucky_phases" /\ StageGuard(pc)
  /\ \E r \in { 0, 10, 20 }, u \in BOOLEAN :
       /\ res' = r
       /\ unsat' = (unsat \/ (u /\ r = 20))
       /\ level' = IF r = 10 THEN max_var ELSE level
       /\ Ran(pc, r)
  /\ pc' = NextStage(pc)
  /\ UNCHANGED <<entry, unsat_constraint, iterating, external_prop, max_var, opts,
                 preprocess_only, ret, kpos, last_assumption_level, calls, evald,
                 acted>>
  /\ UNCHANGED <<gpVars, limVars>>

\* 'res = cdcl_loop_with_inprocessing ();': the loop starts with its own res = 0.
SolveCdcl ==
  /\ entry = "solve" /\ pc = "cdcl_loop" /\ StageGuard(pc)
  /\ level' = IF res = 10 /\ external_prop /\ level # 0 THEN 0 ELSE level
  /\ res' = 0
  /\ kpos' = 1
  /\ evald' = <<>>
  /\ acted' = "none"
  /\ pc' = "loop"
  /\ UNCHANGED <<entry, unsat, unsat_constraint, iterating, external_prop, max_var,
                 opts, preprocess_only, ret, last_assumption_level, calls, ran>>
  /\ UNCHANGED <<gpVars, limVars>>

\* The loop is left: cdcl_loop_with_inprocessing returns res to solve, and the loop
\* of propagate_assumptions falls through to its last statements.
AfterLoop ==
  /\ pc = "after_loop"
  /\ Ran("cdcl_loop", res)
  /\ pc' = IF entry = "solve" THEN NextStage("cdcl_loop") ELSE "pa_finish"
  /\ UNCHANGED <<entry, unsat, unsat_constraint, level, iterating, external_prop,
                 max_var, opts, preprocess_only, res, ret, kpos,
                 last_assumption_level, calls, evald, acted>>
  /\ UNCHANGED <<gpVars, limVars>>

\* finalize (res); reset_solving (); report_solving (res); return res;
SolveFinalize ==
  /\ entry = "solve" /\ pc = "finalize"
  /\ ret' = res
  /\ pc' = "returned"
  /\ UNCHANGED <<entry, unsat, unsat_constraint, level, iterating, external_prop,
                 max_var, opts, preprocess_only, res, kpos, last_assumption_level,
                 calls, ran, evald, acted>>
  /\ UNCHANGED <<gpVars, limVars>>

(***************************************************************************)
(* propagate_assumptions                                                   *)
(***************************************************************************)

\* 'if (!res) { restore_clauses (); while (!res) ...': the result of
\* restore_clauses is dropped.
PaRestore ==
  /\ entry = "propagate_assumptions" /\ pc = "pa_restore"
  /\ IF res = 0
       THEN /\ \E tainted \in BOOLEAN, sets_unsat \in BOOLEAN, ok \in BOOLEAN :
                 /\ unsat' = RestoreClauses(tainted, sets_unsat, ok).unsat
                 /\ Ran("restore_clauses", RestoreClauses(tainted, sets_unsat, ok).res)
            /\ pc' = "loop"
       ELSE /\ pc' = "pa_finish"
            /\ UNCHANGED <<unsat, ran>>
  /\ kpos' = 1
  /\ evald' = <<>>
  /\ acted' = "none"
  /\ UNCHANGED <<entry, unsat_constraint, level, iterating, external_prop, max_var,
                 opts, preprocess_only, res, ret, last_assumption_level, calls>>
  /\ UNCHANGED <<gpVars, limVars>>

\* The result of propagate_assumptions from the res its loop left.
PaResult(r, sat) ==
  LET r1 == IF unsat \/ unsat_constraint THEN 20 ELSE r
  IN IF r1 = 0 /\ sat THEN 10 ELSE r1

PaFinish ==
  /\ entry = "propagate_assumptions" /\ pc = "pa_finish"
  /\ \E sat \in SatisfiedAnswers :
       /\ res' = PaResult(res, sat)
       /\ ret' = PaResult(res, sat)
  /\ pc' = "returned"
  /\ UNCHANGED <<entry, unsat, unsat_constraint, level, iterating, external_prop,
                 max_var, opts, preprocess_only, kpos, last_assumption_level, calls,
                 ran, evald, acted>>
  /\ UNCHANGED <<gpVars, limVars>>

(***************************************************************************)
(* The specification of the entry points.                                  *)
(***************************************************************************)

OptionSets ==
  [ ilb : BOOLEAN, globalpreprocess : BOOLEAN, globalchessheur : BOOLEAN,
    walk : BOOLEAN, restoreall : { 0, 2 } ]

\* The clause database is not part of Spec: it stays empty.
NoFormula ==
  /\ clauses = <<>>
  /\ vals = <<>>
  /\ vlevel = <<>>
  /\ reasons = <<>>
  /\ trail = <<>>
  /\ conflict = <<>>
  /\ globalmarks = {}
  /\ global_try = <<>>
  /\ gp = <<>>
  /\ lcp = <<>>
  /\ timedOut = FALSE
  /\ emitted = <<>>
  /\ late_assume = FALSE
  /\ cover = <<>>

Init ==
  /\ entry = "none"
  /\ pc = "idle"
  /\ unsat = FALSE
  /\ unsat_constraint \in BOOLEAN
  /\ level = 0
  /\ iterating = FALSE
  /\ external_prop \in BOOLEAN
  /\ max_var \in { 0, MaxLevel }
  /\ opts \in OptionSets
  /\ preprocess_only = FALSE
  /\ res = 0
  /\ ret = 0
  /\ kpos = 1
  /\ last_assumption_level = 0
  /\ calls = 0
  /\ ran = <<>>
  /\ evald = <<>>
  /\ acted = "none"
  /\ NoFormula
  /\ lim = <<>>
  /\ inc = <<>>
  /\ stats = <<>>
  /\ stable = FALSE
  /\ averages = <<>>
  /\ last = <<>>
  /\ reluctant = 0

Next ==
  \/ Call
  \/ SolveAlreadySolved
  \/ SolveSkip
  \/ SolveRestore
  \/ SolveInitLimits
  \/ SolvePreprocess
  \/ SolveGlobal
  \/ SolveLocalSearch
  \/ TrySavedPhases
  \/ ProduceFailedAssumptions
  \/ SolveLucky
  \/ SolveCdcl
  \/ LoopCheck
  \/ AfterLoop
  \/ SolveFinalize
  \/ PaRestore
  \/ PaFinish

Spec == Init /\ [][Next]_vars

(***************************************************************************)
(* Global preprocessing on concrete formulas (SpecGP).                     *)
(*                                                                         *)
(* The solver state that the routines thread through is a record st with   *)
(* the fields clauses, vals, vlevel, reasons, trail, conflict, level,      *)
(* unsat and late (the history flag late_assume).                          *)
(***************************************************************************)

\* Variables of the largest formula.
MaxVar == 5

\* The rounds of the schedule of global_preprocess_chess that a run goes through.
MaxRounds == 2

Range(seq) == { seq[k] : k \in 1..Len(seq) }

Abs(x) == IF x < 0 THEN -x ELSE x

Min(S) == CHOOSE x \in S : \A y \in S : x <= y

Max(S) == CHOOSE x \in S : \A y \in S : x >= y

\* The elements of a set of integers in ascending order (the iteration order of
\* std::map<int, int>).
RECURSIVE Ascending(_)
Ascending(S) == IF S = {} THEN <<>> ELSE <<Min(S)>> \o Ascending(S \ { Min(S) })

\* The solver state as a record, and back.
Cur ==
  [clauses |-> clauses, vals |-> vals, vlevel |-> vlevel, reasons |-> reasons,
   trail |-> trail, conflict |-> conflict, level |-> level, unsat |-> unsat,
   late |-> late_assume]

Put(st) ==
  /\ clauses' = st.clauses
  /\ vals' = st.vals
  /\ vlevel' = st.vlevel
  /\ reasons' = st.reasons
  /\ trail' = st.trail
  /\ conflict' = st.conflict
  /\ level' = st.level
  /\ unsat' = st.unsat
  /\ late_assume' = st.late

\* val (lit)
val(st, lit) == IF lit > 0 THEN st.vals[lit] ELSE -st.vals[-lit]

\* flags (lit).status == Flags::FIXED: the variable is assigned at decision level 0.
Fixed(st, lit) == st.vals[Abs(lit)] # 0 /\ st.vlevel[Abs(lit)] = 0

\* is_decision (lit): assigned above level 0 without a reason.
is_decision(st, lit) ==
  /\ st.vals[Abs(lit)] # 0
  /\ st.vlevel[Abs(lit)] > 0
  /\ st.reasons[Abs(lit)] = <<>>

\* The assignment of lit at level l with reason why.
Assign(st, lit, l, why) ==
  [st EXCEPT !.vals[Abs(lit)] = IF lit > 0 THEN 1 ELSE -1,
             !.vlevel[Abs(lit)] = l,
             !.reasons[Abs(lit)] = why,
             !.trail = Append(@, lit)]

\* propagate (): unit propagation to fixpoint over the clauses that are not
\* garbage; the falsified clause, if one is found, is left in conflict.
RECURSIVE propagate(_)
propagate(st) ==
  LET live == { c \in 1..Len(st.clauses) : ~st.clauses[c].garbage }
      falsified == { c \in live : \A l \in Range(st.clauses[c].lits) : val(st, l) < 0 }
      unit == { c \in live :
                  /\ \A l \in Range(st.clauses[c].lits) : val(st, l) <= 0
                  /\ Cardinality({ l \in Range(st.clauses[c].lits) : val(st, l) = 0 }) = 1 }
  IN IF falsified # {} THEN [st EXCEPT !.conflict = st.clauses[Min(falsified)].lits]
     ELSE IF unit = {} THEN [st EXCEPT !.conflict = <<>>]
     ELSE propagate(Assign(st,
                           CHOOSE l \in Range(st.clauses[Min(unit)].lits) : val(st, l) = 0,
                           st.level, st.clauses[Min(unit)].lits))

\* backtrack (l): the assignments above level l are undone.
backtrack(st, l) ==
  IF l >= st.level THEN st
  ELSE [st EXCEPT
          !.vals = [v \in DOMAIN st.vals |-> IF st.vlevel[v] > l THEN 0 ELSE st.vals[v]],
          !.vlevel = [v \in DOMAIN st.vals |-> IF st.vlevel[v] > l THEN 0 ELSE st.vlevel[v]],
          !.reasons = [v \in DOMAIN st.vals |->
                         IF st.vlevel[v] > l THEN <<>> ELSE st.reasons[v]],
          !.trail = SelectSeq(st.trail, LAMBDA x : st.vlevel[Abs(x)] <= l),
          !.level = l]

\* search_assume_decision (lit): a new decision level with lit as its decision.
search_assume_decision(st, lit) ==
  Assign([st EXCEPT !.level = @ + 1, !.late = @ \/ st.unsat], lit, st.level + 1, <<>>)

\* The first-UIP clause: the conflict is resolved with the reasons of the literals
\* of level cl, latest first, until one literal of that level is left. C holds
\* false literals, level 0 left out.
RECURSIVE FirstUIP(_, _, _, _)
FirstUIP(st, C, k, cl) ==
  IF Cardinality({ l \in C : st.vlevel[Abs(l)] = cl }) <= 1 \/ k = 0 THEN C
  ELSE LET t == st.trail[k] IN
       IF -t \in C /\ st.reasons[Abs(t)] # <<>>
         THEN FirstUIP(st,
                       (C \ { -t }) \cup { l \in Range(st.reasons[Abs(t)]) :
                                             l # t /\ st.vlevel[Abs(l)] > 0 },
                       k - 1, cl)
         ELSE FirstUIP(st, C, k - 1, cl)

\* The learned clause lits (the UIP literal first) is added, unless it is a unit, and
\* the UIP literal is assigned at the level s2 was backtracked to.
LearnAndFlip(s2, lits) ==
  [Assign(IF Len(lits) = 1 THEN s2
          ELSE [s2 EXCEPT !.clauses = Append(@, [lits |-> lits, redundant |-> TRUE,
                                                 garbage |-> FALSE])],
          lits[1], s2.level, IF Len(lits) = 1 THEN <<>> ELSE lits)
     EXCEPT !.conflict = <<>>]

\* The backjump: to the second highest level of the learned clause.
Backjump(s1, learned, uip) ==
  LearnAndFlip(backtrack(s1, Max({ s1.vlevel[Abs(l)] : l \in learned \ { uip } } \cup { 0 })),
               <<uip>> \o Ascending(learned \ { uip }))

\* The learned clause of a conflict at level cl > 0.
Learn(s1, learned, cl) ==
  Backjump(s1, learned, CHOOSE l \in learned : s1.vlevel[Abs(l)] = cl)

\* The highest level among the literals of the conflict.
ConflictLevel(st) == Max({ st.vlevel[Abs(l)] : l \in Range(st.conflict) } \cup { 0 })

\* analyze (): a conflict at level 0 sets unsat; otherwise the first-UIP clause is
\* learned (a unit becomes a level-0 fact), the solver backtracks to the second
\* highest level of the clause and the UIP literal is flipped.
analyze(st) ==
  IF ConflictLevel(st) = 0
    THEN [backtrack(st, 0) EXCEPT !.unsat = TRUE, !.conflict = <<>>]
    ELSE Learn(backtrack(st, ConflictLevel(st)),
               FirstUIP(backtrack(st, ConflictLevel(st)),
                        { l \in Range(st.conflict) : st.vlevel[Abs(l)] > 0 },
                        Len(backtrack(st, ConflictLevel(st)).trail),
                        ConflictLevel(st)),
               ConflictLevel(st))

\* 'while (!unsat && !propagate ()) analyze ();'
RECURSIVE AnalyzeLoop(_)
RECURSIVE AnalyzeWhileConflict(_)
AnalyzeLoop(st) == IF st.unsat THEN st ELSE AnalyzeWhileConflict(propagate(st))

\* The body of that loop after propagate () answered.
AnalyzeWhileConflict(s1) ==
  IF s1.conflict = <<>> THEN s1 ELSE AnalyzeLoop(analyze(s1))

\* 'search_assume_decision (lit); propagate ();'
Probe(st, lit) == propagate(search_assume_decision(st, lit))

\* The end of assign_original_unit_gbc: a conflict of the propagation at level 0
\* makes the solver UNSAT.
RootPropagated(s2) ==
  IF s2.conflict = <<>> THEN s2 ELSE [s2 EXCEPT !.unsat = TRUE, !.conflict = <<>>]

\* assign_original_unit_gbc: lit becomes a level-0 fact; a literal that is false at
\* level 0, or a conflict of the propagation at level 0, makes the solver UNSAT.
assign_original_unit_gbc(st, lit) ==
  IF val(st, lit) < 0 /\ Fixed(st, lit) THEN [st EXCEPT !.unsat = TRUE]
  ELSE IF val(st, lit) # 0
    THEN [st EXCEPT !.vals[Abs(lit)] = IF lit > 0 THEN 1 ELSE -1,
                    !.vlevel[Abs(lit)] = 0,
                    !.reasons[Abs(lit)] = <<>>]
  ELSE IF st.level # 0 THEN Assign(st, lit, 0, <<>>)
  ELSE RootPropagated(propagate(Assign(st, lit, 0, <<>>)))

\* new_learned_weak_irredundant_global_clause: the clause goes into the clause
\* database as a learned clause.
new_learned_weak_irredundant_global_clause(st, c) ==
  [st EXCEPT !.clauses = Append(@, [lits |-> c, redundant |-> TRUE, garbage |-> FALSE])]

(***************************************************************************)
(* least_conditional_part and its helpers.                                 *)
(***************************************************************************)

\* 'time () - original_time > opts.globaltimelim': once over the limit the clock
\* stays over it.
TimeAnswers == IF timedOut THEN { TRUE } ELSE BOOLEAN

\* Mutant: the test 'if (!satisfies_clause)' is dropped, so the false literals of
\* a satisfied clause go to neg_alpha_c as well.
ScanClauseAll(st, c, acc) ==
  LET trues == SelectSeq(c.lits, LAMBDA l : val(st, l) > 0)
      alpha_touches ==
        SelectSeq(c.lits, LAMBDA l : val(st, l) < 0 /\ ~Fixed(st, l) /\ l \notin acc.marks)
  IN [neg_alpha_c |-> acc.neg_alpha_c \o alpha_touches,
      times_touched |-> [l \in DOMAIN acc.times_touched \cup Range(trues) |->
                          IF l \in DOMAIN acc.times_touched
                            THEN acc.times_touched[l] + (IF l \in Range(trues) THEN 1 ELSE 0)
                            ELSE 1],
      marks |-> acc.marks \cup Range(alpha_touches)]

\* The scan of one clause: the true literals are counted in times_touched; the
\* false literals that are not fixed and not marked go, for a clause the
\* assignment does not satisfy, to neg_alpha_c and are marked.
ScanClause(st, c, acc) ==
  LET trues == SelectSeq(c.lits, LAMBDA l : val(st, l) > 0)
      alpha_touches ==
        SelectSeq(c.lits, LAMBDA l : val(st, l) < 0 /\ ~Fixed(st, l) /\ l \notin acc.marks)
      tt == [l \in DOMAIN acc.times_touched \cup Range(trues) |->
               IF l \in DOMAIN acc.times_touched
                 THEN acc.times_touched[l] + (IF l \in Range(trues) THEN 1 ELSE 0)
                 ELSE 1]
  IN IF trues # <<>>
       THEN [acc EXCEPT !.times_touched = tt]
       ELSE [neg_alpha_c |-> acc.neg_alpha_c \o alpha_touches,
             times_touched |-> tt,
             marks |-> acc.marks \cup Range(alpha_touches)]

RECURSIVE ScanClausesLearned(_, _, _)
ScanClausesLearned(st, k, acc) ==
  IF k > Len(st.clauses) THEN acc
  ELSE LET c == st.clauses[k] IN
       IF \/ c.garbage
          \/ \E l \in Range(c.lits) : val(st, l) > 0 /\ Fixed(st, l)
         THEN ScanClausesLearned(st, k + 1, acc)
         ELSE ScanClausesLearned(st, k + 1, ScanClause(st, c, acc))

\* The loop over the clauses: learned clauses are skipped unless a proof is
\* traced, garbage clauses and clauses with a true fixed literal are skipped.
RECURSIVE ScanClauses(_, _, _)
ScanClauses(st, k, acc) ==
  IF k > Len(st.clauses) THEN acc
  ELSE LET c == st.clauses[k] IN
       IF \/ c.redundant /\ ~opts.proof
          \/ c.garbage
          \/ \E l \in Range(c.lits) : val(st, l) > 0 /\ Fixed(st, l)
         THEN ScanClauses(st, k + 1, acc)
         ELSE ScanClauses(st, k + 1, ScanClause(st, c, acc))

\* Mutant: the loop that unsets the bits stops one literal short.
UnmarkButLast(marks, nac) == marks \ { nac[k] : k \in 1..(Len(nac) - 1) }

\* 'for (i < neg_alpha_c.size ()) global_unsetbit (neg_alpha_c[i]);'
Unmark(marks, nac) == marks \ { nac[k] : k \in 1..Len(nac) }

\* The keys of times_touched whose bit is not set, in the order of the map.
AlphaA(tt, marks) == SelectSeq(Ascending(DOMAIN tt), LAMBDA key : key \notin marks)

\* Mutant: the candidate clause gets the negation of the key.
CandidateNegated(nac, key) == Append(nac, -key)

\* The candidate clause of a key: 'new_clause = neg_alpha_c; push_back (key)'.
Candidate(nac, key) == Append(nac, key)

\* Mutant: the test '!is_decision (key)' is inverted.
RECURSIVE ClausesToAddOfDecisions(_, _, _, _)
ClausesToAddOfDecisions(st, nac, aa, k) ==
  IF k > Len(aa) THEN <<>>
  ELSE (IF is_decision(st, aa[k]) THEN << Candidate(nac, aa[k]) >> ELSE <<>>)
         \o ClausesToAddOfDecisions(st, nac, aa, k + 1)

\* Mutant: the test '!is_decision (key)' is dropped.
RECURSIVE ClausesToAddAll(_, _, _, _)
ClausesToAddAll(st, nac, aa, k) ==
  IF k > Len(aa) THEN <<>>
  ELSE << Candidate(nac, aa[k]) >> \o ClausesToAddAll(st, nac, aa, k + 1)

\* clauses_to_add: one candidate for every key of alpha_a that is not a decision.
RECURSIVE ClausesToAdd(_, _, _, _)
ClausesToAdd(st, nac, aa, k) ==
  IF k > Len(aa) THEN <<>>
  ELSE (IF is_decision(st, aa[k]) THEN <<>> ELSE << Candidate(nac, aa[k]) >>)
         \o ClausesToAdd(st, nac, aa, k + 1)

\* sort_vec_by_decision_level: highest level first.
RECURSIVE SortByLevel(_, _, _)
SortByLevel(st, c, l) ==
  IF l < 0 THEN <<>>
  ELSE SelectSeq(c, LAMBDA x : st.vlevel[Abs(x)] = l) \o SortByLevel(st, c, l - 1)

\* The loop of check_if_clause_trivial over the literals of c.
RECURSIVE TrivialLoop(_, _, _)
RECURSIVE TrivialProbed(_, _, _)
\* A loop that passes over the literals that are true as over the false ones.
TrivialLoopSkipping(st, c, k) ==
  IF k > Len(c) THEN [st |-> st, trivial |-> FALSE]
  ELSE IF val(st, c[k]) # 0 THEN TrivialLoop(st, c, k + 1)
  ELSE TrivialProbed(Probe(st, -c[k]), c, k)

TrivialLoop(st, c, k) ==
  IF k > Len(c) THEN [st |-> st, trivial |-> FALSE]
  ELSE IF val(st, c[k]) > 0 THEN [st |-> st, trivial |-> TRUE]
  ELSE IF val(st, c[k]) < 0 THEN TrivialLoop(st, c, k + 1)
  ELSE TrivialProbed(Probe(st, -c[k]), c, k)

\* After the negation of literal k was assumed and propagated.
TrivialProbed(s1, c, k) ==
  IF s1.conflict # <<>>
    THEN [st |-> AnalyzeLoop(analyze(s1)), trivial |-> TRUE]
    ELSE TrivialLoop(s1, c, k + 1)

\* The 'backtrack ();' that ends check_if_clause_trivial.
TrivialDone(r) == [st |-> backtrack(r.st, 0), trivial |-> r.trivial]

\* check_if_clause_trivial (c)
check_if_clause_trivial(st, c) ==
  IF Len(c) > opts.globalmaxlen THEN [st |-> st, trivial |-> TRUE]
  ELSE TrivialDone(TrivialLoop(backtrack(st, 0), c, 1))

\* 'clause.clear ();': the vector is empty afterwards.
clear(v) == SubSeq(v, 1, 0)

\* The solver's temporary clause when add_clause returns: it was set to the sorted
\* new_clause and is cleared by the last statement.
add_clause_buffer(st, new_clause) == clear(SortByLevel(st, new_clause, st.level))

\* An add_clause that learns the clause whether or not globallearn is set.
AddClauseLearning(st, new_clause) ==
  IF Len(new_clause) > 1
    THEN new_learned_weak_irredundant_global_clause(st, SortByLevel(st, new_clause, st.level))
  ELSE assign_original_unit_gbc(st, new_clause[1])

\* add_clause (new_clause, ...): with globallearn the clause is learned, a unit as
\* a level-0 fact.
add_clause(st, new_clause) ==
  IF ~opts.globallearn THEN st
  ELSE IF Len(new_clause) > 1
    THEN new_learned_weak_irredundant_global_clause(st, SortByLevel(st, new_clause, st.level))
  ELSE assign_original_unit_gbc(st, new_clause[1])

\* propagate_shrink from literal k of alpha_a on. Its vector parameters are
\* copies, so the caller sees the solver state it leaves and what it returns:
\* "false" from 'return false', "end" when control runs off the end.
RECURSIVE propagate_shrink(_, _, _)
RECURSIVE ShrinkProbed(_, _, _)
RECURSIVE ShrinkAnalyzed(_, _, _)
propagate_shrink(st, aa, k) ==
  IF k > Len(aa) THEN [st |-> backtrack(st, 0), returned |-> "end"]
  ELSE IF Fixed(st, aa[k]) THEN propagate_shrink(st, aa, k + 1)
  ELSE ShrinkProbed(Probe(backtrack(st, 0), -aa[k]), aa, k)

\* After the negation of literal k was assumed and propagated.
ShrinkProbed(s1, aa, k) ==
  IF s1.conflict = <<>> THEN propagate_shrink(s1, aa, k + 1)
  ELSE ShrinkAnalyzed(propagate(analyze(s1)), aa, k)

\* After the conflict was analyzed and the solver propagated again.
ShrinkAnalyzed(s2, aa, k) ==
  IF s2.conflict # <<>> THEN [st |-> s2, returned |-> "false"]
  ELSE propagate_shrink(s2, aa, k + 1)

\* The loop of greedy_sort_alpha_a over alpha_a from literal k on: g holds the
\* solver state st, the literals found useful and, for each, the literals of
\* neg_alpha_c that its negation falsifies.
RECURSIVE GreedyLoop(_, _, _, _)
RECURSIVE GreedyProbed(_, _, _, _, _)
RECURSIVE GreedyAnalyzed(_, _, _, _, _)
RECURSIVE GreedyPropagated(_, _, _, _, _)
GreedyLoop(g, aa, nac, k) ==
  IF k > Len(aa) THEN g
  ELSE IF Fixed(g.st, aa[k]) THEN GreedyLoop(g, aa, nac, k + 1)
  ELSE GreedyProbed(Probe(backtrack(g.st, 0), -aa[k]), g, aa, nac, k)

\* After the negation of literal k was assumed and propagated.
GreedyProbed(s1, g, aa, nac, k) ==
  IF s1.conflict # <<>> THEN GreedyAnalyzed(analyze(s1), g, aa, nac, k)
  ELSE IF \E l \in Range(nac) : val(s1, l) < 0
    THEN GreedyLoop([st |-> s1,
                     alpha_a_useful |-> Append(g.alpha_a_useful, aa[k]),
                     alpha_a_propagated |->
                       Append(g.alpha_a_propagated, { l \in Range(nac) : val(s1, l) < 0 })],
                    aa, nac, k + 1)
  ELSE GreedyLoop([g EXCEPT !.st = s1], aa, nac, k + 1)

\* After the conflict was analyzed: 'if (unsat) break;'.
GreedyAnalyzed(s2, g, aa, nac, k) ==
  IF s2.unsat THEN [g EXCEPT !.st = s2]
  ELSE GreedyPropagated(propagate(s2), g, aa, nac, k)

\* After the second propagate: 'analyze (); break;' or 'continue;'.
GreedyPropagated(s3, g, aa, nac, k) ==
  IF s3.conflict # <<>> THEN [g EXCEPT !.st = analyze(s3)]
  ELSE GreedyLoop([g EXCEPT !.st = s3], aa, nac, k + 1)

\* greedySetCoverSpecial: for every literal of curr_global_try the subset at its
\* position in alpha_a is chosen; what the chosen subsets do not cover is left.
greedySetCoverSpecial(curr_global_try, aa, subsets, total_elements) ==
  [chosen_subsets |-> [k \in 1..Len(curr_global_try) |-> IndexOf(aa, curr_global_try[k], 1)],
   uncovered |-> Ascending(Range(total_elements)
                   \ UNION { subsets[IndexOf(aa, curr_global_try[k], 1)] :
                               k \in 1..Len(curr_global_try) })]

\* The pair greedy_sort_alpha_a returns, after its 'backtrack (0);'.
GreedyPair(g, cov) ==
  [st |-> backtrack(g.st, 0),
   alpha_a_useful |-> [k \in 1..Len(cov.chosen_subsets) |->
                         g.alpha_a_useful[cov.chosen_subsets[k]]],
   neg_alpha_c_minus_c0 |-> cov.uncovered,
   returned |-> "pair", asserted |-> TRUE]

\* The call of greedySetCoverSpecial in greedy_sort_alpha_a.
GreedyCover(g, aa, nac) ==
  GreedyPair(g, greedySetCoverSpecial(global_try, aa, g.alpha_a_propagated, nac))

\* greedy_sort_alpha_a (alpha_a, neg_alpha_c)
greedy_sort_alpha_a(st, aa, nac) ==
  GreedyCover(GreedyLoop([st |-> st, alpha_a_useful |-> <<>>, alpha_a_propagated |-> <<>>],
                         aa, nac, 1),
              aa, nac)

\* What least_conditional_part has after propagate_shrink: its own vectors are
\* unchanged.
AfterPropagateShrink(p, nac) ==
  [st |-> p.st, alpha_a_useful |-> <<>>, neg_alpha_c_minus_c0 |-> nac,
   returned |-> p.returned, asserted |-> TRUE]

\* The loop of greedy_sort_alpha_a_special over global_try from literal k on: g
\* holds the solver state st, global_try_final, the literals of neg_alpha_c found
\* false, and whether every assert so far held. The decisions pile up: there is no
\* backtrack between two literals.
RECURSIVE SpecialLoop(_, _, _, _)
RECURSIVE SpecialTry(_, _, _, _)
RECURSIVE SpecialProbed(_, _, _, _, _)

\* 'backtrack (0); assert (propagated.size() == neg_alpha_c.size()); return
\* std::make_pair(global_try_final, empty);'
SpecialDone(g, nac) ==
  [st |-> backtrack(g.st, 0),
   alpha_a_useful |-> g.global_try_final,
   neg_alpha_c_minus_c0 |-> <<>>,
   returned |-> "pair",
   asserted |-> g.asserted /\ Cardinality(g.propagated) = Len(nac)]

\* 'return std::make_pair(empty, empty);' after the second propagate.
SpecialEmpty(s3, g) ==
  [st |-> IF s3.conflict # <<>> THEN analyze(s3) ELSE s3,
   alpha_a_useful |-> <<>>,
   neg_alpha_c_minus_c0 |-> <<>>,
   returned |-> "pair",
   asserted |-> g.asserted]

\* A literal of global_try that is in alpha_a goes to global_try_final.
SpecialNoted(g, aa, learn) ==
  [g EXCEPT !.global_try_final = IF learn \in Range(aa) THEN Append(@, learn) ELSE @]

SpecialLoop(g, aa, nac, k) ==
  IF k > Len(global_try) THEN SpecialDone(g, nac)
  ELSE SpecialTry(SpecialNoted(g, aa, global_try[k]), aa, nac, k)

\* Lines 2134-2146: a fixed literal and a literal whose negation is true are
\* passed over; 'assert (val(-learn) >= 0)'; the negation is assumed.
SpecialTry(g, aa, nac, k) ==
  IF Fixed(g.st, global_try[k]) THEN SpecialLoop(g, aa, nac, k + 1)
  ELSE IF val(g.st, -global_try[k]) > 0
    THEN SpecialLoop(g, aa, nac, k + 1)
  ELSE SpecialProbed(Probe(g.st, -global_try[k]),
                     [g EXCEPT !.asserted = @ /\ val(g.st, -global_try[k]) >= 0],
                     aa, nac, k)

\* After the negation of literal k of global_try was assumed and propagated.
SpecialProbed(s1, g, aa, nac, k) ==
  IF s1.conflict # <<>> THEN SpecialEmpty(propagate(analyze(s1)), g)
  ELSE SpecialLoop([g EXCEPT !.st = s1,
                             !.propagated = @ \cup { l \in Range(nac) : val(s1, l) < 0 }],
                   aa, nac, k + 1)

\* greedy_sort_alpha_a_special (alpha_a, neg_alpha_c)
greedy_sort_alpha_a_special(st, aa, nac) ==
  SpecialLoop([st |-> backtrack(st, 0), global_try_final |-> <<>>, propagated |-> {},
               asserted |-> TRUE],
              aa, nac, 1)

\* The shrink step of least_conditional_part: custom_sort_alpha_a is off, and the
\* options choose among greedy_sort_alpha_a, greedy_sort_alpha_a_special,
\* bcp_shrink (which changes copies only) and propagate_shrink (copies as well,
\* but it moves the solver).
Shrink(st, aa, nac) ==
  IF opts.globalalphaagreedy /\ ~opts.globalchessheur THEN greedy_sort_alpha_a(st, aa, nac)
  ELSE IF opts.globalalphaagreedy THEN greedy_sort_alpha_a_special(st, aa, nac)
  ELSE IF opts.globalbcp
    THEN [st |-> st, alpha_a_useful |-> <<>>, neg_alpha_c_minus_c0 |-> nac,
          returned |-> "void", asserted |-> TRUE]
  ELSE AfterPropagateShrink(propagate_shrink(st, aa, 1), nac)

\* The clause set the solver holds: the clauses that are not garbage, the level-0
\* facts and, once unsat is set, the empty clause.
ClauseSet(st) ==
  { Range(st.clauses[c].lits) : c \in { k \in 1..Len(st.clauses) : ~st.clauses[k].garbage } }
    \cup { { l } : l \in { x \in Range(st.trail) : Fixed(st, x) /\ val(st, x) > 0 } }
    \cup (IF st.unsat THEN { {} } ELSE {})

\* The frame of a call of least_conditional_part that returns to ret; produced
\* tells whether the call has reached add_clause, is_trivial what the last
\* check_if_clause_trivial of the call returned.
NewFrame(ret_pc) ==
  [neg_alpha_c |-> <<>>, times_touched |-> <<>>, alpha_a |-> <<>>,
   clauses_to_add |-> <<>>, alpha_a_useful |-> <<>>, neg_alpha_c_minus_c0 |-> <<>>,
   i |-> 0, adding_a_clause |-> FALSE, alpha |-> {}, ret |-> ret_pc,
   produced |-> FALSE, is_trivial |-> FALSE]

NoEmission ==
  [clause |-> <<>>, alpha |-> {}, before |-> {}, after |-> {}, buffer |-> <<>>]

ctlRest == <<entry, unsat_constraint, iterating, external_prop, max_var, opts,
             preprocess_only, kpos, last_assumption_level, calls, ran, evald, acted,
             limVars>>

\* What the scan leaves: the bits set, neg_alpha_c and times_touched.
Scanned(acc) ==
  /\ globalmarks' = acc.marks
  /\ lcp' = [lcp EXCEPT !.neg_alpha_c = acc.neg_alpha_c,
                        !.times_touched = acc.times_touched,
                        !.alpha = { l \in Range(trail) : val(Cur, l) > 0 }]

\* Lines 2431-2499: the scan of the clauses under the current assignment.
LcpScan ==
  /\ pc = "lcp_scan"
  /\ Scanned(ScanClauses(Cur, 1, [neg_alpha_c |-> <<>>, times_touched |-> <<>>,
                                  marks |-> globalmarks]))
  /\ pc' = "lcp_keys"
  /\ UNCHANGED <<clauses, vals, vlevel, reasons, trail, conflict, level, unsat,
                 late_assume, global_try, gp, timedOut, emitted, res, ret, ctlRest, cover>>

\* Lines 2502-2526: alpha_a and the candidate clauses, then the bits are unset.
LcpKeys ==
  /\ pc = "lcp_keys"
  /\ lcp' = [lcp EXCEPT !.alpha_a = AlphaA(lcp.times_touched, globalmarks),
                        !.clauses_to_add =
                          ClausesToAdd(Cur, lcp.neg_alpha_c,
                                       AlphaA(lcp.times_touched, globalmarks), 1)]
  /\ globalmarks' = Unmark(globalmarks, lcp.neg_alpha_c)
  /\ pc' = "lcp_shrink"
  /\ UNCHANGED <<clauses, vals, vlevel, reasons, trail, conflict, level, unsat,
                 late_assume, global_try, gp, timedOut, emitted, res, ret, ctlRest, cover>>

\* least_conditional_part goes on with the result r of the shrink step.
\* propagate_shrink has no return statement on its last path, so the value read
\* there is either one.
GoOn(r) ==
  \E end_early \in (CASE r.returned = "false" -> { FALSE }
                      [] r.returned = "end" -> BOOLEAN
                      [] OTHER -> { TRUE }) :
    /\ pc' = IF end_early THEN "lcp_emit" ELSE lcp.ret
    /\ lcp' = [lcp EXCEPT !.alpha_a_useful = r.alpha_a_useful,
                          !.neg_alpha_c_minus_c0 = r.neg_alpha_c_minus_c0,
                          !.i = 0,
                          !.adding_a_clause = FALSE]

\* What least_conditional_part does with the result r of the shrink step. An
\* assert that fails aborts the program in a build with assertions and does
\* nothing in a build without them.
Shrunk(r) ==
  /\ Put(r.st)
  /\ \E abort \in (IF r.asserted THEN { FALSE } ELSE BOOLEAN) :
       IF abort THEN pc' = "aborted" /\ UNCHANGED lcp ELSE GoOn(r)

\* Lines 2535-2559: the shrink step.
LcpShrink ==
  /\ pc = "lcp_shrink"
  /\ Shrunk(Shrink(Cur, lcp.alpha_a, lcp.neg_alpha_c))
  /\ UNCHANGED <<globalmarks, global_try, gp, timedOut, emitted, res, ret, ctlRest, cover>>

\* add_clause was called on new_clause in state before and left state added.
Emitted(before, added, new_clause) ==
  /\ Put(added)
  /\ emitted' = [clause |-> new_clause, alpha |-> lcp.alpha,
                 before |-> ClauseSet(before), after |-> ClauseSet(added),
                 buffer |-> add_clause_buffer(before, new_clause)]

\* The clause is added unless the check found it trivial; frame is the frame
\* after the assignment 'adding_a_clause = true' that precedes the check.
Filtered(chk, new_clause, frame) ==
  IF chk.trivial
    THEN Put(chk.st) /\ UNCHANGED emitted /\ lcp' = [frame EXCEPT !.is_trivial = TRUE]
  ELSE /\ Emitted(chk.st, add_clause(chk.st, new_clause), new_clause)
       /\ lcp' = [frame EXCEPT !.produced = TRUE, !.is_trivial = FALSE]

\* One clause through 'if (!(opts.globalfiltertriv && check_if_clause_trivial (c)))
\* add_clause (c, ...)'.
FilterAndAdd(new_clause, frame) ==
  Filtered(IF opts.globalfiltertriv THEN check_if_clause_trivial(Cur, new_clause)
           ELSE [st |-> Cur, trivial |-> FALSE],
           new_clause, frame)

\* Lines 2562-2587: one iteration of the loop over clauses_to_add, or the one
\* shrunk clause, or the return.
LcpEmit ==
  /\ pc = "lcp_emit"
  /\ IF lcp.alpha_a_useful = <<>> \/ opts.globalnoshrink
       THEN IF lcp.i >= Min({ opts.globalmaxclause, Len(lcp.clauses_to_add) })
              THEN /\ pc' = lcp.ret
                   /\ UNCHANGED <<clauses, vals, vlevel, reasons, trail, conflict, level,
                                  unsat, late_assume, lcp, timedOut, emitted>>
              ELSE \E late \in TimeAnswers :
                     /\ timedOut' = late
                     /\ IF late
                          THEN /\ pc' = lcp.ret
                               /\ lcp' = [lcp EXCEPT !.adding_a_clause = FALSE]
                               /\ UNCHANGED <<clauses, vals, vlevel, reasons, trail,
                                              conflict, level, unsat, late_assume, emitted>>
                          ELSE /\ FilterAndAdd(lcp.clauses_to_add[lcp.i + 1],
                                               [lcp EXCEPT !.i = @ + 1,
                                                           !.adding_a_clause = TRUE])
                               /\ pc' = "lcp_emit"
       ELSE /\ FilterAndAdd(lcp.neg_alpha_c_minus_c0 \o lcp.alpha_a_useful,
                            [lcp EXCEPT !.adding_a_clause = TRUE])
            /\ pc' = lcp.ret
            /\ UNCHANGED timedOut
  /\ UNCHANGED <<globalmarks, global_try, gp, res, ret, ctlRest, cover>>

\* A call of least_conditional_part under one decision: the caller has assumed
\* the unassigned literal i and the propagation has found no conflict.
LcpCall ==
  /\ pc = "lcp_call"
  /\ \E i \in { l \in (-max_var..max_var) \ { 0 } : val(Cur, l) = 0 } :
       /\ Probe(Cur, i).conflict = <<>>
       /\ Put(Probe(Cur, i))
       /\ gp' = [gp EXCEPT !.i = i]
  /\ lcp' = NewFrame("lcp_returned")
  /\ pc' = "lcp_scan"
  /\ UNCHANGED <<globalmarks, global_try, timedOut, emitted, res, ret, ctlRest, cover>>

(***************************************************************************)
(* global_preprocess                                                       *)
(***************************************************************************)

\* get_touched_literals from clause k on: the unassigned literals of the clauses
\* that have a false literal and no true one, each variable once. The scan of a
\* clause stops at its first true literal.
RECURSIVE TouchedLoop(_, _, _)
TouchedLoop(st, k, touched) ==
  IF k > Len(st.clauses) THEN touched
  ELSE LET c == st.clauses[k].lits
           stop == Min({ x \in 1..Len(c) : val(st, c[x]) > 0 } \cup { Len(c) + 1 })
           seen == SubSeq(c, 1, stop - 1)
           variables_to_consider ==
             SelectSeq(seen, LAMBDA l : /\ val(st, l) = 0
                                        /\ \A t \in Range(touched) : Abs(t) # Abs(l))
       IN IF stop > Len(c) /\ \E l \in Range(seen) : val(st, l) < 0
            THEN TouchedLoop(st, k + 1, touched \o variables_to_consider)
            ELSE TouchedLoop(st, k + 1, touched)

\* get_touched_literals ()
get_touched_literals(st) ==
  IF ~opts.globaltouch THEN [v \in 1..max_var |-> v] ELSE TouchedLoop(st, 1, <<>>)

\* The occurrences of variable v in the clauses that are not garbage.
Occurrences(st, v) ==
  Cardinality({ k \in 1..Len(st.clauses) :
                  ~st.clauses[k].garbage /\ \E l \in Range(st.clauses[k].lits) : Abs(l) = v })

\* get_sorted_literals (): the active variables by descending occurrence count;
\* std::sort leaves the order of equal counts open.
get_sorted_literals(st) ==
  LET active == { v \in 1..max_var : ~Fixed(st, v) }
      n == Cardinality(active)
  IN { p \in [1..n -> active] :
         /\ \A a, b \in 1..n : a # b => p[a] # p[b]
         /\ \A a, b \in 1..n : a < b => Occurrences(st, p[a]) >= Occurrences(st, p[b]) }

\* The literal i of outer iteration count: from sorted_literals (read at index
\* count, the loop ends when count is past its end), or count itself, or a random
\* literal.
PickI ==
  IF opts.globalisort
    THEN IF gp.count < Len(gp.sorted_literals) THEN { gp.sorted_literals[gp.count + 1] }
         ELSE {}
  ELSE IF opts.globalorderi THEN { gp.count }
  ELSE { l \in -max_var..max_var : l # 0 }

polarities == IF opts.globalbothpol THEN <<-1, 1>> ELSE <<1>>

j_polar == polarities[gp.pidx] * gp.touched_literals[gp.tidx]

\* 'STOP (global_preprocess); return 20;'
Return20 == pc' = "gp_done" /\ res' = 20

NextCountLeave(st) ==
  /\ Put(st)
  /\ pc' = "gp_exit"
  /\ UNCHANGED <<gp, res>>

\* 'continue' of the loop over count.
NextCount(st) ==
  /\ Put(st)
  /\ gp' = [gp EXCEPT !.count = @ + 1]
  /\ pc' = "gp_outer"
  /\ UNCHANGED res

\* The end of an iteration of the loop over the polarities, at line 1447.
EndPolarity(st) ==
  /\ Put(st)
  /\ IF st.unsat THEN Return20 /\ UNCHANGED gp
     ELSE pc' = "gp_inner" /\ gp' = [gp EXCEPT !.pidx = @ + 1] /\ UNCHANGED res

\* Lines 1295-1333: the bits are cleared and the literals sorted.
GpStart ==
  /\ pc = "gp_start"
  /\ globalmarks' = {}
  /\ \E sorted \in (IF opts.globalisort THEN get_sorted_literals(Cur) ELSE { <<>> }) :
       gp' = [count |-> 1, i |-> 0, touched_literals |-> <<>>, tidx |-> 1, pidx |-> 1,
              sorted_literals |-> sorted]
  /\ pc' = "gp_outer"
  /\ UNCHANGED <<clauses, vals, vlevel, reasons, trail, conflict, level, unsat,
                 late_assume, global_try, lcp, timedOut, emitted, res, ret, ctlRest, cover>>

\* Lines 1335-1381: the head of the loop over count and the first probe of i.
GpOuter ==
  /\ pc = "gp_outer"
  /\ IF gp.count > max_var
       THEN pc' = "gp_exit" /\ UNCHANGED <<clauses, vals, vlevel, reasons, trail, conflict,
                                           level, unsat, late_assume, gp, timedOut, res>>
       ELSE \E late \in TimeAnswers :
              /\ timedOut' = late
              /\ IF late \/ PickI = {}
                   THEN pc' = "gp_exit" /\ UNCHANGED <<clauses, vals, vlevel, reasons,
                                                       trail, conflict, level, unsat,
                                                       late_assume, gp, res>>
                   ELSE \E i \in PickI :
                          LET s0 == backtrack(Cur, 0)
                              s1 == propagate(search_assume_decision(s0, i))
                              s2 == propagate(analyze(s1))
                          IN IF Fixed(s0, i) THEN NextCount(s0)
                             ELSE IF s1.conflict = <<>>
                               THEN /\ Put(s1)
                                    /\ gp' = [gp EXCEPT !.i = i,
                                                !.touched_literals = get_touched_literals(s1),
                                                !.tidx = 1, !.pidx = 1]
                                    /\ pc' = "gp_inner"
                                    /\ UNCHANGED res
                             ELSE IF s2.conflict = <<>> THEN NextCount(s2)
                             ELSE /\ Put(analyze(s2))
                                  /\ pc' = "gp_exit"
                                  /\ UNCHANGED <<gp, res>>
  /\ UNCHANGED <<globalmarks, global_try, lcp, emitted, ret, ctlRest, cover>>

\* Lines 1385-1410: the heads of the loops over the touched literals and over the
\* polarities, up to the backtrack before the probe.
GpInner ==
  /\ pc = "gp_inner"
  /\ IF gp.tidx > Len(gp.touched_literals)
       THEN pc' = "gp_single" /\ UNCHANGED <<level, vals, vlevel, reasons, trail, gp,
                                             timedOut, res>>
       ELSE \E late \in (IF gp.pidx = 1 THEN TimeAnswers ELSE { timedOut }) :
              /\ timedOut' = late
              /\ IF gp.pidx = 1 /\ late
                   THEN pc' = "gp_single" /\ UNCHANGED <<level, vals, vlevel, reasons,
                                                         trail, gp, res>>
                 ELSE IF gp.pidx > Len(polarities) \/ Fixed(Cur, gp.i)
                   THEN /\ IF unsat THEN Return20 /\ UNCHANGED gp
                           ELSE /\ gp' = [gp EXCEPT !.tidx = @ + 1, !.pidx = 1]
                                /\ pc' = "gp_inner"
                                /\ UNCHANGED res
                        /\ UNCHANGED <<level, vals, vlevel, reasons, trail>>
                 ELSE IF Fixed(Cur, j_polar)
                   THEN /\ gp' = [gp EXCEPT !.pidx = @ + 1]
                        /\ pc' = "gp_inner"
                        /\ UNCHANGED <<level, vals, vlevel, reasons, trail, res>>
                 ELSE /\ level' = 0
                      /\ vals' = backtrack(Cur, 0).vals
                      /\ vlevel' = backtrack(Cur, 0).vlevel
                      /\ reasons' = backtrack(Cur, 0).reasons
                      /\ trail' = backtrack(Cur, 0).trail
                      /\ pc' = "gp_retry"
                      /\ UNCHANGED <<gp, res>>
  /\ UNCHANGED <<clauses, conflict, unsat, late_assume, globalmarks, global_try, lcp,
                 emitted, ret, ctlRest, cover>>

GpRetryAfterConflict ==
  /\ pc = "gp_retry"
  /\ LET s0 == propagate(Cur)
         s1 == propagate(search_assume_decision(s0, gp.i))
         s2 == propagate(search_assume_decision(s1, j_polar))
     IN IF s0.conflict # <<>>
          THEN Put(analyze(s0)) /\ pc' = "gp_retry" /\ UNCHANGED <<gp, lcp, res>>
        ELSE IF s1.conflict # <<>>
          THEN EndPolarity(AnalyzeLoop(analyze(s1))) /\ UNCHANGED lcp
        ELSE IF val(s1, j_polar) # 0
          THEN /\ Put(s1)
               /\ gp' = [gp EXCEPT !.pidx = @ + 1]
               /\ pc' = "gp_inner"
               /\ UNCHANGED <<lcp, res>>
        ELSE /\ Put(s2)
             /\ lcp' = NewFrame("gp_after_lcp")
             /\ pc' = "lcp_scan"
             /\ UNCHANGED <<gp, res>>
  /\ UNCHANGED <<globalmarks, global_try, timedOut, emitted, ret, ctlRest, cover>>

\* Lines 1412-1446: one test of 'while (!propagate ()) analyze ();' and, when
\* propagation succeeds, the probe of i and j_polar.
GpRetry ==
  /\ pc = "gp_retry"
  /\ LET s0 == propagate(Cur)
         s1 == propagate(search_assume_decision(s0, gp.i))
         s2 == propagate(search_assume_decision(s1, j_polar))
     IN IF s0.conflict # <<>>
          THEN Put(analyze(s0)) /\ pc' = "gp_retry" /\ UNCHANGED <<gp, lcp, res>>
        ELSE IF s1.conflict # <<>>
          THEN EndPolarity(AnalyzeLoop(analyze(s1))) /\ UNCHANGED lcp
        ELSE IF val(s1, j_polar) # 0
          THEN /\ Put(s1)
               /\ gp' = [gp EXCEPT !.pidx = @ + 1]
               /\ pc' = "gp_inner"
               /\ UNCHANGED <<lcp, res>>
        ELSE IF s2.conflict # <<>>
          THEN EndPolarity(AnalyzeLoop(analyze(s2))) /\ UNCHANGED lcp
        ELSE /\ Put(s2)
             /\ lcp' = NewFrame("gp_after_lcp")
             /\ pc' = "lcp_scan"
             /\ UNCHANGED <<gp, res>>
  /\ UNCHANGED <<globalmarks, global_try, timedOut, emitted, ret, ctlRest, cover>>

\* Lines 1443-1450: back from least_conditional_part.
GpAfterLcp ==
  /\ pc = "gp_after_lcp"
  /\ EndPolarity(backtrack(Cur, 0))
  /\ UNCHANGED <<globalmarks, global_try, lcp, timedOut, emitted, ret, ctlRest, cover>>

\* Lines 1458-1494: after the touched literals, i and -i are probed alone.
GpSingle ==
  /\ pc = "gp_single"
  /\ LET s0 == backtrack(Cur, 0)
         s1 == propagate(search_assume_decision(s0, gp.i))
         s2 == propagate(search_assume_decision(backtrack(s1, 0), -gp.i))
     IN IF unsat THEN Return20 /\ UNCHANGED <<clauses, vals, vlevel, reasons, trail,
                                               conflict, level, unsat, late_assume, gp>>
        ELSE IF Fixed(s0, gp.i) THEN NextCount(s0)
        ELSE IF s1.conflict # <<>> THEN NextCount(backtrack(AnalyzeLoop(analyze(s1)), 0))
        ELSE IF s2.conflict # <<>> THEN NextCount(backtrack(AnalyzeLoop(analyze(s2)), 0))
        ELSE NextCount(s2)
  /\ UNCHANGED <<globalmarks, global_try, lcp, timedOut, emitted, ret, ctlRest, cover>>

\* Mutant: the test of unsat after the loop is missing and 0 is returned.
GpExitZero ==
  /\ pc = "gp_exit"
  /\ res' = 0
  /\ pc' = "gp_done"
  /\ UNCHANGED <<clauses, vals, vlevel, reasons, trail, conflict, level, unsat,
                 late_assume, globalmarks, global_try, gp, lcp, timedOut, emitted, ret,
                 ctlRest, cover>>

\* Lines 1496-1501: 'if (unsat) return 20; return 0;'.
GpExit ==
  /\ pc = "gp_exit"
  /\ res' = IF unsat THEN 20 ELSE 0
  /\ pc' = "gp_done"
  /\ UNCHANGED <<clauses, vals, vlevel, reasons, trail, conflict, level, unsat,
                 late_assume, globalmarks, global_try, gp, lcp, timedOut, emitted, ret,
                 ctlRest, cover>>

\* solve, line 1679: 'backtrack ();' after global preprocessing.
GpReturn ==
  /\ pc = "gp_done"
  /\ Put(backtrack(Cur, 0))
  /\ ret' = res
  /\ pc' = "returned"
  /\ UNCHANGED <<globalmarks, global_try, gp, lcp, timedOut, emitted, res, ctlRest, cover>>

(***************************************************************************)
(* global_preprocess_chess                                                 *)
(***************************************************************************)

\* The first rounds of the schedule: the assumptions of a round and its global_try.
asses ==
  << << <<1, 10>>, <<-92, -91>> >>,
     << <<2, 11>>, <<-93, -92>> >>,
     << <<3, 12>>, <<-94, -93>> >> >>

\* The loop over the assumptions of a round from assumption k on; try_learn tells
\* whether every assumption went through without a conflict.
RECURSIVE ChessAssume(_, _, _)
RECURSIVE ChessAssumed(_, _, _)
ChessAssume(st, ass_round_asses, k) ==
  IF k > Len(ass_round_asses) THEN [st |-> st, try_learn |-> TRUE]
  ELSE IF Fixed(st, ass_round_asses[k]) \/ val(st, ass_round_asses[k]) # 0
    THEN ChessAssume(st, ass_round_asses, k + 1)
  ELSE ChessAssumed(Probe(st, ass_round_asses[k]), ass_round_asses, k)

\* After assumption k was assumed and propagated.
ChessAssumed(s1, ass_round_asses, k) ==
  IF s1.conflict # <<>>
    THEN [st |-> AnalyzeLoop(analyze(s1)), try_learn |-> FALSE]
    ELSE ChessAssume(s1, ass_round_asses, k + 1)

ChessLearnAlways(r) ==
  /\ Put(r.st)
  /\ lcp' = NewFrame("chess_after_lcp") /\ pc' = "lcp_scan"

\* Lines 1260-1266: least_conditional_part is called when try_learn holds.
ChessLearn(r) ==
  /\ Put(r.st)
  /\ IF r.try_learn
       THEN lcp' = NewFrame("chess_after_lcp") /\ pc' = "lcp_scan"
       ELSE pc' = "chess_after_lcp" /\ UNCHANGED lcp

\* Lines 1270-1283 after the propagate: the conflict is analyzed, UNSAT returns
\* 20, otherwise the next round follows.
ChessRestored(s1) ==
  /\ Put(IF s1.conflict # <<>> THEN AnalyzeLoop(analyze(s1)) ELSE s1)
  /\ IF s1.unsat \/ (s1.conflict # <<>> /\ AnalyzeLoop(analyze(s1)).unsat)
       THEN Return20 /\ UNCHANGED gp
       ELSE pc' = "chess_round" /\ gp' = [gp EXCEPT !.count = @ + 1] /\ UNCHANGED res

\* Lines 781-801: the bits are cleared.
ChessStart ==
  /\ pc = "chess_start"
  /\ globalmarks' = {}
  /\ pc' = "chess_round"
  /\ UNCHANGED <<clauses, vals, vlevel, reasons, trail, conflict, level, unsat,
                 late_assume, global_try, gp, lcp, timedOut, emitted, res, ret, ctlRest, cover>>

\* Lines 1212-1266: one round of the schedule up to the call of
\* least_conditional_part.
ChessRound ==
  /\ pc = "chess_round"
  /\ gp.count <= Min({ Len(asses), MaxRounds })
  /\ global_try' = asses[gp.count][2]
  /\ ChessLearn(ChessAssume(backtrack(Cur, 0), asses[gp.count][1], 1))
  /\ UNCHANGED <<globalmarks, gp, timedOut, emitted, res, ret, ctlRest, cover>>

\* Lines 1270-1283: the end of a round.
ChessAfterLcp ==
  /\ pc = "chess_after_lcp"
  /\ ChessRestored(propagate(backtrack(Cur, 0)))
  /\ UNCHANGED <<globalmarks, global_try, lcp, timedOut, emitted, ret, ctlRest, cover>>

\* Lines 1285-1287: 'return 0;' after the last round.
ChessExit ==
  /\ pc = "chess_round"
  /\ gp.count > Min({ Len(asses), MaxRounds })
  /\ res' = 0
  /\ pc' = "gp_done"
  /\ UNCHANGED <<clauses, vals, vlevel, reasons, trail, conflict, level, unsat,
                 late_assume, globalmarks, global_try, gp, lcp, timedOut, emitted, ret,
                 ctlRest, cover>>
(***************************************************************************)
(* greedySetCover and greedySetCoverSpecial as functions of their          *)
(* arguments.                                                              *)
(***************************************************************************)

MaxSets == 3
MaxElements == 3

\* The frames at the entry of the two functions: total_elements is a
\* neg_alpha_c of up to MaxElements literals, subsets holds up to MaxSets sets
\* of its literals, alpha_a has one literal per subset and curr_global_try names
\* literals of alpha_a, as the asserts of greedySetCoverSpecial demand.
Covers ==
  { [subsets |-> subsets, total_elements |-> [k \in 1..n |-> -k],
     alpha_a |-> [k \in 1..Len(subsets) |-> k], curr_global_try |-> try,
     covered |-> {}, uncovered |-> { -k : k \in 1..n }, chosen_subsets |-> <<>>] :
      <<n, subsets, try>> \in
        UNION { UNION { { <<m, f, t>> :
                            t \in { <<>> } \cup { <<a>> : a \in 1..len }
                                    \cup { <<a, 1>> : a \in 2..len } } :
                        f \in [1..len -> SUBSET { -k : k \in 1..m }] } :
                <<m, len>> \in (0..MaxElements) \X (0..MaxSets) } }

\* Mutant: the comparison 'new_elements > max_new_elements' is not strict.
RECURSIVE BestSubsetOrEqual(_, _, _, _, _)
BestSubsetOrEqual(subsets, covered, i, best_idx, max_new_elements) ==
  IF i > Len(subsets) THEN best_idx
  ELSE IF Cardinality(subsets[i] \ covered) >= max_new_elements
    THEN BestSubsetOrEqual(subsets, covered, i + 1, i, Cardinality(subsets[i] \ covered))
    ELSE BestSubsetOrEqual(subsets, covered, i + 1, best_idx, max_new_elements)

\* The inner loop of greedySetCover from subset i on: the first subset that adds
\* the most new elements, 0 (the -1 of the code) when none adds any. Positions
\* count from 1.
RECURSIVE BestSubset(_, _, _, _, _)
BestSubset(subsets, covered, i, best_idx, max_new_elements) ==
  IF i > Len(subsets) THEN best_idx
  ELSE IF Cardinality(subsets[i] \ covered) > max_new_elements
    THEN BestSubset(subsets, covered, i + 1, i, Cardinality(subsets[i] \ covered))
    ELSE BestSubset(subsets, covered, i + 1, best_idx, max_new_elements)

\* Lines 2082-2113: one iteration of 'while (covered.size () <
\* total_elements.size ())', or the return.
CoverStep ==
  /\ pc = "cover_loop"
  /\ LET best_idx == BestSubset(cover.subsets, cover.covered, 1, 0, 0)
     IN IF Cardinality(cover.covered) < Len(cover.total_elements) /\ best_idx # 0
          THEN /\ cover' = [cover EXCEPT !.chosen_subsets = Append(@, best_idx),
                                         !.covered = @ \cup cover.subsets[best_idx],
                                         !.uncovered = @ \ cover.subsets[best_idx]]
               /\ pc' = "cover_loop"
          ELSE pc' = "cover_returned" /\ UNCHANGED cover
  /\ UNCHANGED <<clauses, vals, vlevel, reasons, trail, conflict, level, unsat,
                 late_assume, globalmarks, global_try, gp, lcp, timedOut, emitted, res,
                 ret, ctlRest>>

\* Lines 2039-2071: greedySetCoverSpecial.
CoverSpecial ==
  /\ pc = "cover_special"
  /\ LET r == greedySetCoverSpecial(cover.curr_global_try, cover.alpha_a, cover.subsets,
                                    cover.total_elements)
     IN cover' = [cover EXCEPT !.chosen_subsets = r.chosen_subsets,
                               !.covered = UNION { cover.subsets[r.chosen_subsets[k]] :
                                                     k \in 1..Len(r.chosen_subsets) },
                               !.uncovered = Range(r.uncovered)]
  /\ pc' = "cover_returned"
  /\ UNCHANGED <<clauses, vals, vlevel, reasons, trail, conflict, level, unsat,
                 late_assume, globalmarks, global_try, gp, lcp, timedOut, emitted, res,
                 ret, ctlRest>>


(***************************************************************************)
(* The formulas and options global preprocessing is run on.                *)
(***************************************************************************)

\* An original clause.
Orig(c) == [lits |-> c, redundant |-> FALSE, garbage |-> FALSE]

\* A learned clause.
Learned(c) == [lits |-> c, redundant |-> TRUE, garbage |-> FALSE]

\* Formulas: n variables, the clauses and the unit facts of level 0. A run takes
\* the formulas of at most MaxVar variables.
Formulas ==
  { [n |-> 3, units |-> <<>>, clauses |-> << Orig(<<1, 2, 3>>), Orig(<<-1, -2>>) >>],
    [n |-> 4, units |-> <<>>, clauses |-> << Orig(<<1, 2>>), Orig(<<-2, 3>>),
        Orig(<<-2, -3>>), Orig(<<2, 4>>), Orig(<<2, -4>>) >>],
    [n |-> 4, units |-> <<>>, clauses |-> << Orig(<<1, 2>>), Orig(<<-3, 4>>) >>],
    [n |-> 5, units |-> <<>>, clauses |-> << Orig(<<-1, 2, 3>>), Orig(<<-1, 3, 4>>),
        Orig(<<-2, 5>>) >>],
    [n |-> 5, units |-> <<>>, clauses |-> << Orig(<<-1, 2, 3>>), Orig(<<-4, 5>>) >>],
    [n |-> 3, units |-> <<>>, clauses |-> << Orig(<<-1, -2, 3>>), Orig(<<-1, -2, -3>>) >>],
    [n |-> 4, units |-> <<1>>, clauses |-> << Orig(<<-1, 2, 3>>), Orig(<<-2, 4>>),
        Orig(<<1, -4>>) >>],
    [n |-> 4, units |-> <<>>, clauses |-> << Orig(<<-1, 2>>), Learned(<<-2, 3, 4>>),
        [lits |-> <<-1, -2>>, redundant |-> FALSE, garbage |-> TRUE],
        Orig(<<-3, -4, 1>>) >>],
    [n |-> 2, units |-> <<>>, clauses |-> << Orig(<<1, 2>>) >>],
    [n |-> 2, units |-> <<>>, clauses |-> << Orig(<<1, 2>>), Orig(<<-1, 2>>),
        Orig(<<1, -2>>) >>],
    [n |-> 2, units |-> <<>>, clauses |-> << Orig(<<1, 2>>), Orig(<<1, -2>>),
        Orig(<<-1, 2>>), Orig(<<-1, -2>>) >>],
    [n |-> 3, units |-> <<>>, clauses |-> << Orig(<<-1, 2>>), Orig(<<-2, 3>>),
        Orig(<<-3, -1>>), Orig(<<1, 2, 3>>) >> ],
    [n |-> 5, units |-> <<>>, clauses |-> << Orig(<<-1, 2>>), Orig(<<-2, 4, 5>>),
        Orig(<<-2, 4, -5>>), Orig(<<-2, -4, 5>>), Orig(<<-2, -4, -5>>),
        Orig(<<1, 3>>) >> ],
    [n |-> 5, units |-> <<>>, clauses |-> << Orig(<<-1, -2, 3, 4>>),
        Orig(<<-1, -2, 3, -4>>), Orig(<<-1, 5>>), Orig(<<1, -5>>) >> ],
    [n |-> 6, units |-> <<>>, clauses |-> << Orig(<<-1, 2>>), Orig(<<-2, 3, 4>>),
        Orig(<<-5, 6>>) >> ],
    [n |-> 5, units |-> <<>>, clauses |-> << Orig(<<-3, 4>>), Orig(<<-3, -4>>),
        Orig(<<3, 5>>), Orig(<<3, -5>>), Orig(<<1, 3>>) >> ] }

\* The options of the default run.
BaseOptions ==
  [globalisort |-> FALSE, globalorderi |-> TRUE, globaltouch |-> TRUE,
   globalbothpol |-> FALSE, globalalphaagreedy |-> FALSE, globalbcp |-> TRUE,
   globalnoshrink |-> FALSE, globalfiltertriv |-> FALSE, globallearn |-> TRUE,
   globalmaxlen |-> 3, globalmaxclause |-> 2, globalchessheur |-> FALSE,
   proof |-> FALSE]

\* The option settings: the default and departures from it.
GlobalOptionSets ==
  { BaseOptions,
    [BaseOptions EXCEPT !.globaltouch = FALSE],
    [BaseOptions EXCEPT !.globaltouch = FALSE, !.globalfiltertriv = TRUE],
    [BaseOptions EXCEPT !.globaltouch = FALSE, !.globalbcp = FALSE],
    [BaseOptions EXCEPT !.globaltouch = FALSE, !.globalalphaagreedy = TRUE],
    [BaseOptions EXCEPT !.globaltouch = FALSE, !.globalalphaagreedy = TRUE,
                        !.globalfiltertriv = TRUE],
    [BaseOptions EXCEPT !.globaltouch = FALSE, !.globalbothpol = TRUE,
                        !.globalfiltertriv = TRUE],
    [BaseOptions EXCEPT !.globalbothpol = TRUE],
    [BaseOptions EXCEPT !.globaltouch = FALSE, !.globallearn = FALSE],
    [BaseOptions EXCEPT !.globaltouch = FALSE, !.proof = TRUE],
    [BaseOptions EXCEPT !.globaltouch = FALSE, !.globalmaxlen = 1,
                        !.globalfiltertriv = TRUE],
    [BaseOptions EXCEPT !.globaltouch = FALSE, !.globalmaxclause = 1],
    [BaseOptions EXCEPT !.globalisort = TRUE],
    [BaseOptions EXCEPT !.globalorderi = FALSE],
    [BaseOptions EXCEPT !.globalorderi = FALSE, !.globaltouch = FALSE,
                        !.globalfiltertriv = TRUE] }

\* The formulas global_preprocess_chess is run on, over the 180 variables of its
\* schedule.
ChessFormulas ==
  { [n |-> 180, units |-> <<>>, clauses |-> << Orig(<<-1, -92>>), Orig(<<92, 2, 3>>),
        Orig(<<92, 2, -3>>), Orig(<<92, -2, 3>>), Orig(<<92, -2, -3>>) >>],
    [n |-> 180, units |-> <<>>, clauses |-> << Orig(<<-1, -92>>), Orig(<<-92, 10>>),
        Orig(<<-10, 2, 3>>) >>],
    [n |-> 180, units |-> <<>>, clauses |-> << Orig(<<-1, -92>>), Orig(<<-10, 92>>),
        Orig(<<-2, -11, 93>>), Orig(<<-93, 4>>), Orig(<<-4, -2, 5>>) >>],
    [n |-> 180, units |-> <<>>, clauses |-> << Orig(<<-1, 2>>), Orig(<<-1, -2>>),
        Orig(<<2, 11, 3>>) >>] }

\* The option settings of the runs of global_preprocess_chess.
ChessOptionSets ==
  { [BaseOptions EXCEPT !.globalchessheur = TRUE],
    [BaseOptions EXCEPT !.globalchessheur = TRUE, !.globalalphaagreedy = TRUE],
    [BaseOptions EXCEPT !.globalchessheur = TRUE, !.globalalphaagreedy = TRUE,
                        !.globalfiltertriv = TRUE] }

\* The formula of the runs of greedySetCover and greedySetCoverSpecial, which do
\* not read the solver.
NoClauses == [n |-> 1, units |-> <<>>, clauses |-> <<>>]

\* The runs: an option setting and a formula; the last one is the run of the two
\* set-cover functions.
Runs ==
  (GlobalOptionSets \X { g \in Formulas : g.n <= MaxVar })
    \cup (ChessOptionSets \X ChessFormulas)
    \cup { <<BaseOptions, NoClauses>> }

\* The unit facts of a formula assigned at level 0.
RECURSIVE AssignUnits(_, _, _)
AssignUnits(st, units, k) ==
  IF k > Len(units) THEN st ELSE AssignUnits(Assign(st, units[k], 0, <<>>), units, k + 1)

\* The solver holding formula f, after the propagation at level 0.
Loaded(f) ==
  propagate(AssignUnits([clauses |-> f.clauses,
                         vals |-> [v \in 1..f.n |-> 0],
                         vlevel |-> [v \in 1..f.n |-> 0],
                         reasons |-> [v \in 1..f.n |-> <<>>],
                         trail |-> <<>>, conflict |-> <<>>, level |-> 0,
                         unsat |-> FALSE, late |-> FALSE], f.units, 1))

InitGP ==
  /\ entry = "solve"
  /\ unsat_constraint = FALSE
  /\ iterating = FALSE
  /\ external_prop = FALSE
  /\ preprocess_only = FALSE
  /\ res = 0
  /\ ret = 0
  /\ kpos = 1
  /\ last_assumption_level = 0
  /\ calls = 1
  /\ ran = <<>>
  /\ evald = <<>>
  /\ acted = "none"
  /\ \E run \in Runs :
       /\ opts = run[1]
       /\ \/ /\ run[2] # NoClauses
             /\ pc \in IF run[1].globalchessheur THEN { "chess_start" }
                       ELSE { "gp_start", "lcp_call" }
             /\ cover = <<>>
          \/ /\ run[2] = NoClauses
             /\ pc \in { "cover_loop", "cover_special" }
             /\ cover \in Covers
             /\ pc = "cover_loop" => cover.curr_global_try = <<>>
       /\ max_var = run[2].n
       /\ clauses = Loaded(run[2]).clauses
       /\ vals = Loaded(run[2]).vals
       /\ vlevel = Loaded(run[2]).vlevel
       /\ reasons = Loaded(run[2]).reasons
       /\ trail = Loaded(run[2]).trail
       /\ conflict = <<>>
       /\ level = 0
       /\ unsat = FALSE
  /\ late_assume = FALSE
  /\ globalmarks = {}
  /\ global_try = <<>>
  /\ gp = [count |-> 1, i |-> 0, touched_literals |-> <<>>, tidx |-> 1, pidx |-> 1,
           sorted_literals |-> <<>>]
  /\ lcp = NewFrame("gp_after_lcp")
  /\ timedOut = FALSE
  /\ emitted = NoEmission
  /\ lim = <<>>
  /\ inc = <<>>
  /\ stats = <<>>
  /\ stable = FALSE
  /\ averages = <<>>
  /\ last = <<>>
  /\ reluctant = 0

NextGP ==
  \/ GpStart
  \/ GpOuter
  \/ GpInner
  \/ GpRetry
  \/ LcpScan
  \/ LcpKeys
  \/ LcpShrink
  \/ LcpEmit
  \/ GpAfterLcp
  \/ GpSingle
  \/ GpExit
  \/ ChessStart
  \/ ChessRound
  \/ ChessAfterLcp
  \/ ChessExit
  \/ GpReturn
  \/ LcpCall
  \/ CoverStep
  \/ CoverSpecial

SpecGP == InitGP /\ [][NextGP]_vars

(***************************************************************************)
(* The limits over a sequence of solve calls (SpecLim)                     *)
(***************************************************************************)
\* Calls of solve on one solver.
MaxSolves == 2
\* scale: the interval scaled by the size of the formula.
scale(v) == v

\* The hard cap derived from a signed increment.
ConflictLimitNonPositive(count, increment) ==
  IF increment <= 0 THEN -1 ELSE count + increment

ConflictLimit(count, increment) ==
  IF increment < 0 THEN -1 ELSE count + increment

\* The limits reset in any case: rephase and restart.
ResetLimitsInitial(l) ==
  IF l.initialized THEN l
  ELSE [l EXCEPT !.rephase = stats.conflicts + opts.rephaseint,
                 !.rephased = <<0, 0>>,
                 !.restart = stats.conflicts + opts.restartint]

ResetLimits(l) ==
  [l EXCEPT !.rephase = stats.conflicts + opts.rephaseint,
            !.rephased = <<0, 0>>,
            !.restart = stats.conflicts + opts.restartint]

\* The mode and the trackers: initialised in the first call, switched back to
\* non-stable in an incremental call that is not forced to stay stable.
PhaseSwitchAlways(incremental, stbl, avg) ==
  IF ~incremental
    THEN [stable |-> opts.stabilize /\ opts.stabilizeonly,
          averages |-> [avg EXCEPT !.current = 0]]
  ELSE IF opts.stabilize /\ opts.stabilizeonly
    THEN [stable |-> stbl, averages |-> avg]
  ELSE [stable |-> FALSE,
        averages |-> [current |-> avg.saved, saved |-> avg.current]]

PhaseSwitch(incremental, stbl, avg) ==
  IF ~incremental
    THEN [stable |-> opts.stabilize /\ opts.stabilizeonly,
          averages |-> [avg EXCEPT !.current = 0]]
  ELSE IF opts.stabilize /\ opts.stabilizeonly
    THEN [stable |-> stbl, averages |-> avg]
  ELSE IF stbl
    THEN [stable |-> FALSE,
          averages |-> [current |-> avg.saved, saved |-> avg.current]]
  ELSE [stable |-> stbl, averages |-> avg]

init_preprocessing_limits_compacting(l, la) ==
  LET incremental == l.initialized
      first == [l EXCEPT !.subsume = stats.conflicts + scale(opts.subsumeint),
                         !.elim = stats.conflicts + scale(opts.elimint),
                         !.probe = stats.conflicts + opts.probeint,
                         !.condition = stats.conflicts + opts.conditionint]
      kept == IF incremental THEN l ELSE first
  IN  [lim |-> [kept EXCEPT !.elimbound = opts.elimboundmin,
                            !.compact = stats.conflicts + opts.compactint,
                            !.preprocessing = IF inc.preprocessing <= 0 THEN 0
                                              ELSE inc.preprocessing],
       last |-> IF incremental THEN la
                ELSE [la EXCEPT !.elim = -1, !.ternary = -1]]

init_preprocessing_limits(l, la) ==
  LET incremental == l.initialized
      first == [l EXCEPT !.subsume = stats.conflicts + scale(opts.subsumeint),
                         !.elim = stats.conflicts + scale(opts.elimint),
                         !.compact = stats.conflicts + opts.compactint,
                         !.probe = stats.conflicts + opts.probeint,
                         !.condition = stats.conflicts + opts.conditionint]
      kept == IF incremental THEN l ELSE first
  IN  [lim |-> [kept EXCEPT !.elimbound = opts.elimboundmin,
                            !.preprocessing = IF inc.preprocessing <= 0 THEN 0
                                              ELSE inc.preprocessing],
       last |-> IF incremental THEN la
                ELSE [la EXCEPT !.elim = -1, !.ternary = -1]]

init_search_limits(l, la) ==
  LET incremental == l.initialized
      first == [l EXCEPT !.reduce = stats.conflicts + opts.reduceint,
                         !.flush = opts.flushint]
      kept == IF incremental THEN l ELSE first
      phase == PhaseSwitch(incremental, stable, averages)
  IN  [lim |-> [ResetLimits(kept) EXCEPT
                  !.stabilize = stats.conflicts + opts.stabilizeint,
                  !.conflicts = ConflictLimit(stats.conflicts, inc.conflicts),
                  !.decisions = ConflictLimit(stats.decisions, inc.decisions),
                  !.localsearch = IF inc.localsearch <= 0 THEN 0 ELSE inc.localsearch,
                  !.initialized = TRUE],
       last |-> IF incremental THEN la ELSE [la EXCEPT !.reduce = -1],
       inc |-> [inc EXCEPT !.flush = IF incremental THEN @ ELSE opts.flushint,
                           !.stabilize = opts.stabilizeint],
       stable |-> phase.stable,
       averages |-> phase.averages,
       reluctant |-> IF opts.stabilize /\ opts.reluctant > 0 THEN opts.reluctant
                     ELSE 0]

\* solve up to the initialisation of the limits: the caller may have added
\* variables; already_solved and restore_clauses give the first result.
LimCall ==
  /\ pc = "idle"
  /\ calls < MaxSolves
  /\ calls' = calls + 1
  /\ entry' = "solve"
  /\ preprocess_only' \in BOOLEAN
  /\ max_var' \in { n \in 0..1 : n >= max_var }
  /\ \E inconsistent \in BOOLEAN :
       /\ unsat' = (unsat \/ inconsistent)
       /\ res' = IF unsat' THEN 20 ELSE IF max_var' = 0 THEN 10 ELSE 0
  /\ pc' = IF res' = 0 THEN "init_limits" ELSE "search"
  /\ UNCHANGED <<unsat_constraint, level, iterating, external_prop, opts, ret, kpos,
                 last_assumption_level, ran, evald, acted>>
  /\ UNCHANGED <<gpVars, limVars>>

\* if (!res) { init_preprocessing_limits (); if (!preprocess_only)
\* init_search_limits (); }
LimInit ==
  /\ pc = "init_limits"
  /\ LET pre == init_preprocessing_limits(lim, last)
         all == init_search_limits(pre.lim, pre.last)
     IN  IF preprocess_only
           THEN /\ lim' = pre.lim
                /\ last' = pre.last
                /\ UNCHANGED <<inc, stable, averages, reluctant>>
           ELSE /\ lim' = all.lim
                /\ last' = all.last
                /\ inc' = all.inc
                /\ stable' = all.stable
                /\ averages' = all.averages
                /\ reluctant' = all.reluctant
  /\ pc' = "search"
  /\ UNCHANGED <<entry, unsat, unsat_constraint, level, iterating, external_prop,
                 max_var, opts, preprocess_only, res, ret, kpos,
                 last_assumption_level, calls, ran, evald, acted>>
  /\ UNCHANGED <<gpVars, stats>>

\* The rest of solve: preprocessing and, unless preprocess_only, the search add
\* conflicts and decisions and feed the current tracker, elimination may raise
\* its bound, and the search may change the mode, swapping the trackers.
LimRest ==
  /\ pc = "search"
  /\ IF res = 0
       THEN /\ \E c \in 0..1, d \in 0..1 :
                 /\ stats' = [conflicts |-> stats.conflicts + c,
                              decisions |-> stats.decisions + d]
                 /\ \E s \in IF ~preprocess_only /\ opts.stabilize /\ ~opts.stabilizeonly
                                THEN BOOLEAN ELSE { stable } :
                      /\ stable' = s
                      /\ averages' =
                           IF s = stable
                             THEN [averages EXCEPT !.current = stats'.conflicts]
                             ELSE [current |-> averages.saved,
                                   saved |-> stats'.conflicts]
            /\ \E b \in { lim.elimbound, 1 } : lim' = [lim EXCEPT !.elimbound = b]
            /\ res' \in IF preprocess_only THEN { 0, 20 } ELSE { 0, 10, 20 }
       ELSE UNCHANGED <<stats, stable, averages, lim, res>>
  /\ unsat' = (res' = 20)
  /\ ret' = res'
  /\ entry' = "none"
  /\ pc' = "idle"
  /\ UNCHANGED <<unsat_constraint, level, iterating, external_prop, max_var, opts,
                 preprocess_only, kpos, last_assumption_level, calls, ran, evald, acted>>
  /\ UNCHANGED <<gpVars, inc, last, reluctant>>

\* A solver before its first call of solve: the limits are zero and not
\* initialised, the caller has set the options and the increments.
InitLim ==
  /\ entry = "none"
  /\ pc = "idle"
  /\ unsat = FALSE
  /\ unsat_constraint = FALSE
  /\ level = 0
  /\ iterating = FALSE
  /\ external_prop = FALSE
  /\ max_var \in 0..1
  /\ \E st \in BOOLEAN, only \in BOOLEAN, period \in 0..1 :
       opts = [stabilize |-> st, stabilizeonly |-> only, reluctant |-> period,
               subsumeint |-> 1, elimint |-> 2, probeint |-> 3, conditionint |-> 4,
               reduceint |-> 5, compactint |-> 6, rephaseint |-> 7, restartint |-> 8,
               stabilizeint |-> 9, flushint |-> 10, elimboundmin |-> 0]
  /\ preprocess_only = FALSE
  /\ res = 0
  /\ ret = 0
  /\ kpos = 1
  /\ last_assumption_level = 0
  /\ calls = 0
  /\ ran = <<>>
  /\ evald = <<>>
  /\ acted = "none"
  /\ NoFormula
  /\ lim = [initialized |-> FALSE, subsume |-> 0, elim |-> 0, elimbound |-> 0,
            compact |-> 0, probe |-> 0, condition |-> 0, preprocessing |-> 0,
            reduce |-> 0, flush |-> 0, rephase |-> 0, rephased |-> <<0, 0>>,
            restart |-> 0, stabilize |-> 0, conflicts |-> 0, decisions |-> 0,
            localsearch |-> 0]
  /\ \E c \in -1..1, d \in -1..1, p \in 0..1, l \in 0..1 :
       inc = [flush |-> 0, stabilize |-> 0, conflicts |-> c, decisions |-> d,
              preprocessing |-> p, localsearch |-> l]
  /\ stats = [conflicts |-> 0, decisions |-> 0]
  /\ stable = FALSE
  /\ averages = [current |-> 0, saved |-> 0]
  /\ last = [elim |-> 0, ternary |-> 0, reduce |-> 0]
  /\ reluctant = 0

NextLim ==
  \/ LimCall
  \/ LimInit
  \/ LimRest

SpecLim == InitLim /\ [][NextLim]_vars
(***************************************************************************)
(* Claims about the entry points and the CDCL loop (checked under Spec).   *)
(***************************************************************************)

\* The checks of the else-if chain proper, without the calls made inside the
\* 'found model' branch.
ChainChecks(lg) ==
  SelectSeq(lg, LAMBDA e : e[1] \notin { "external_check_solution", "satisfied_again" })

\* The order of the transitions as the design states it.
StatedOrder ==
  << "unsat", "unsat_constraint", "propagate", "iterating", "external_propagate",
     "satisfied", "search_limits_hit", "terminated_asynchronously",
     "restarting", "rephasing", "reducing", "probing", "subsuming", "eliminating",
     "compacting", "conditioning", "decide" >>

\* What the branch behind a check may do.
StatedActs(c) ==
  CASE c \in { "unsat", "unsat_constraint" } -> { "result20" }
    [] c = "propagate" -> { "analyze" }
    [] c = "iterating" -> { "iterate" }
    [] c = "external_propagate" -> { "analyze", "continue" }
    [] c = "satisfied" -> { "result10", "analyze", "continue", "nothing" }
    [] c \in { "search_limits_hit", "terminated_asynchronously" } -> { "stop" }
    [] c = "restarting" -> { "restart" }
    [] c = "rephasing" -> { "rephase" }
    [] c = "reducing" -> { "reduce" }
    [] c = "probing" -> { "probe" }
    [] c = "subsuming" -> { "subsume" }
    [] c = "eliminating" -> { "elim" }
    [] c = "compacting" -> { "compact" }
    [] c = "conditioning" -> { "condition" }
    [] c = "decide" -> { "decide" }

InCdclLoop == entry = "solve" /\ pc \in { "loop", "after_loop" }

\* C1: in every iteration of cdcl_loop_with_inprocessing the checks are made in the
\* stated order, the iteration takes the branch of the first check that matches and
\* no other, and a decision is made only when all sixteen earlier checks failed.
C1_FirstMatchInFixedOrder ==
  InCdclLoop =>
    LET lg == ChainChecks(evald)
        n == Len(lg)
    IN /\ n <= Len(StatedOrder)
       /\ \A i \in 1..n : lg[i][1] = StatedOrder[i]
       /\ \A i \in 1..(n - 1) : lg[i][2] = FALSE
       /\ acted # "none" => n >= 1 /\ lg[n][2] = TRUE /\ acted \in StatedActs(lg[n][1])
       /\ acted = "none" => \A i \in 1..n : lg[i][2] = FALSE
       /\ acted = "decide" => n = Len(StatedOrder)

\* C1 witness: an iteration whose first matching check was the last inprocessing
\* step, conditioning, after fifteen failed checks.
C1_Witness ==
  InCdclLoop /\ acted = "condition" /\ Len(ChainChecks(evald)) = 16

\* C2: an iteration that sets the UNSAT flag does not end the loop, and an
\* iteration that starts with the flag set makes the one check 'unsat' and ends the
\* loop with 20, calling nothing.
C2_UnsatEndsNextIteration ==
  [][ /\ (InCdclLoop /\ pc = "loop" /\ ~unsat /\ unsat') =>
           (pc' = "loop" /\ kpos' = 1 /\ res' = 0)
      /\ (InCdclLoop /\ pc = "loop" /\ unsat) =>
           (/\ kpos = 1
            /\ pc' = "after_loop"
            /\ res' = 20
            /\ acted' = "result20"
            /\ evald' = << <<"unsat", TRUE>> >>) ]_vars

\* C2 witness: the loop is about to start an iteration after a probe that set the
\* UNSAT flag.
C2_Witness == InCdclLoop /\ pc = "loop" /\ unsat /\ acted = "probe"

\* C3: the loop returns 10 only with unsat not set, after propagate succeeded,
\* satisfied () held and external_check_solution succeeded in that iteration; an
\* iteration whose external check failed does not return 10.
C3_TenOnlyForCheckedModel ==
  /\ (InCdclLoop /\ pc = "after_loop" /\ res = 10) =>
       /\ ~unsat
       /\ acted = "result10"
       /\ <<"propagate", FALSE>> \in Range(evald)
       /\ <<"satisfied", TRUE>> \in Range(evald)
       /\ <<"external_check_solution", TRUE>> \in Range(evald)
       /\ <<"satisfied_again", TRUE>> \in Range(evald)
  /\ (InCdclLoop /\ <<"external_check_solution", FALSE>> \in Range(evald)) =>
       (pc = "loop" /\ res = 0)

\* C3 witness: the loop has returned 10.
C3_Witness == InCdclLoop /\ pc = "after_loop" /\ res = 10

\* C4: the loop returns 0 only from an iteration that stopped on a search limit or
\* on asynchronous termination after the higher-priority checks all failed, and
\* that iteration made no inprocessing check and no decision.
C4_ZeroOnlyOnLimitOrTermination ==
  (InCdclLoop /\ pc = "after_loop" /\ res = 0) =>
    LET n == Len(evald) IN
    /\ acted = "stop"
    /\ n >= 1
    /\ evald[n][2] = TRUE
    /\ evald[n][1] \in { "search_limits_hit", "terminated_asynchronously" }
    /\ \A i \in 1..(n - 1) : evald[i][2] = FALSE
    /\ { "unsat", "propagate", "iterating", "external_propagate", "satisfied" }
         \subseteq { evald[i][1] : i \in 1..(n - 1) }
    /\ \A i \in 1..n : evald[i][1] \notin InprocChecks \cup { "decide" }

\* C4 witness: the loop has returned 0 on asynchronous termination.
C4_Witness ==
  /\ InCdclLoop /\ pc = "after_loop" /\ res = 0
  /\ evald[Len(evald)][1] = "terminated_asynchronously"

\* C5: solve and propagate_assumptions return 0, 10 or 20, and 20 whenever the
\* UNSAT flag is set when they return.
C5_StatusConvention ==
  pc = "returned" => ret \in { 0, 10, 20 } /\ (unsat => ret = 20)

\* C5 witness: solve returns with the UNSAT flag set by a stage after clause
\* restoration.
C5_Witness ==
  pc = "returned" /\ entry = "solve" /\ unsat /\ Len(ran) >= 4

\* The stages in the order the design states.
StatedStages ==
  << "already_solved", "restore_clauses", "init_limits", "preprocess",
     "global_preprocess", "local_search", "lucky_phases", "cdcl_loop" >>

\* C6: the stages of solve run in the stated order; a stage after the
\* already-solved check runs only if every stage before it returned 0, the CDCL
\* loop also on a result of 10 with an external propagator; in preprocess-only
\* mode local search, lucky phases and the CDCL loop do not run.
C6_StageOrder ==
  entry = "solve" =>
    /\ \A i \in 1..Len(ran) : IndexOf(StatedStages, ran[i].stage, 1) # 0
    /\ \A i \in 1..Len(ran), j \in 1..Len(ran) :
         i < j => IndexOf(StatedStages, ran[i].stage, 1)
                    < IndexOf(StatedStages, ran[j].stage, 1)
    /\ \A j \in 2..Len(ran) :
         \/ \A i \in 1..(j - 1) : ran[i].res = 0
         \/ /\ ran[j].stage = "cdcl_loop"
            /\ external_prop
            /\ ran[j - 1].res = 10
            /\ \A i \in 1..(j - 2) : ran[i].res = 0
    /\ preprocess_only =>
         \A i \in 1..Len(ran) :
           ran[i].stage \notin { "local_search", "lucky_phases", "cdcl_loop" }

\* C6 witness: a call of solve in which all eight stages ran.
C6_Witness == entry = "solve" /\ pc = "returned" /\ Len(ran) = 8

(***************************************************************************)
(* Claims about global preprocessing (checked under SpecGP).               *)
(***************************************************************************)

\* The variables of the clause set cs.
Variables(cs) == { IF l > 0 THEN l ELSE -l : l \in UNION cs }

\* The clause set cs has a satisfying assignment; T is the set of true variables.
Satisfiable(cs) ==
  \E T \in SUBSET Variables(cs) :
    \A c \in cs : \E l \in c : (l > 0 /\ l \in T) \/ (l < 0 /\ -l \notin T)

\* The literals that follow from the literals A by unit propagation on cs, up to
\* the first round that falsifies a clause.
RECURSIVE UnitClosure(_, _)
UnitClosure(cs, A) ==
  LET units == { l \in UNION cs :
                   /\ l \notin A
                   /\ -l \notin A
                   /\ \E c \in cs : l \in c /\ \A m \in c \ { l } : -m \in A }
  IN IF units = {} \/ \E c \in cs : \A m \in c : -m \in A
       THEN A
       ELSE UnitClosure(cs, A \cup units)

\* Asserting the negation of every literal of C and propagating on cs yields a
\* conflict.
Refuted(cs, C) ==
  \/ \E l \in C : -l \in C
  \/ \E c \in cs : \A m \in c : -m \in UnitClosure(cs, { -l : l \in C })

\* least_conditional_part has handed a clause to add_clause.
HasEmitted == emitted.clause # <<>>

\* C7, as stated: for every clause that least_conditional_part emits, asserting
\* the negation of each of its literals and running unit propagation on the
\* clause set as it was before the emission yields a conflict.
C7_EmittedClauseIsRefuted ==
  HasEmitted => Refuted(emitted.before, Range(emitted.clause))

\* C7, amended: every clause that least_conditional_part emits is satisfied by the
\* probe assignment it was derived from: each of its literals is assigned by the
\* probe assignment and at least one of them, a key of alpha_a, is true under it.
\* Unit propagation need not refute its negation.
C7_EmittedClauseHoldsUnderProbe ==
  HasEmitted =>
    /\ \A l \in Range(emitted.clause) : l \in emitted.alpha \/ -l \in emitted.alpha
    /\ \E l \in Range(emitted.clause) : l \in emitted.alpha

\* A clause of more than one literal was emitted that unit propagation does not
\* refute.
C7_Witness ==
  /\ HasEmitted
  /\ Len(emitted.clause) > 1
  /\ ~Refuted(emitted.before, Range(emitted.clause))

\* C8, as stated: adding a clause or unit learned by global preprocessing never
\* changes satisfiability: a clause set that was satisfiable before add_clause is
\* satisfiable after it.
C8_EmissionKeepsSatisfiable ==
  HasEmitted /\ Satisfiable(emitted.before) => Satisfiable(emitted.after)

\* C9, as stated: once the UNSAT flag is set no routine of global preprocessing
\* performs another search_assume_decision, so every assumption is made in a
\* state where unsat is false.
C9_NoAssumptionOnceUnsat == ~late_assume

\* C10: every bit of globalmarks is unset at entry to least_conditional_part, at
\* its exit on every return path, and at every point of the driver between two
\* derivations; bits are set only between the scan of the clauses and the loop
\* that unsets them.
C10_MarksClearOutsideScan == pc # "lcp_keys" => globalmarks = {}

\* least_conditional_part returned after a scan that set bits.
C10_Witness == pc = "gp_after_lcp" /\ lcp.neg_alpha_c # <<>>

(***************************************************************************)
(* Claims C11-C13: what check_if_clause_trivial and least_conditional_part *)
(* leave behind and return.                                                *)
(***************************************************************************)

\* A step of the emission of least_conditional_part in which
\* check_if_clause_trivial ran: the filter is on and a candidate of the raw loop
\* or the one shrunk clause went through it. Nothing that follows the check in
\* the step (add_clause) moves the decision level.
TrivialCheckStep ==
  /\ pc = "lcp_emit"
  /\ opts.globalfiltertriv
  /\ \/ lcp'.i = lcp.i + 1
     \/ lcp.alpha_a_useful # <<>> /\ ~opts.globalnoshrink

\* C11: check_if_clause_trivial leaves the solver at decision level 0 on every
\* return path, whatever the clause and the level it is called at.
C11_TrivialCheckEndsAtLevelZero == [][TrivialCheckStep => level' = 0]_vars

\* least_conditional_part has returned to global_preprocess or to the caller of
\* LcpCall, which has not acted yet.
LcpReturned == pc \in { "gp_after_lcp", "lcp_returned" }

\* C12: when least_conditional_part returns, the solver is at decision level 0
\* and no probe assumption is still assigned.
C12_LcpReturnsAtLevelZero ==
  LcpReturned => level = 0 /\ \A l \in Range(trail) : ~is_decision(Cur, l)

\* C13: least_conditional_part returns true exactly when the call passed at
\* least one clause to add_clause.
C13_ReturnsTrueIffProduced == LcpReturned => (lcp.adding_a_clause <=> lcp.produced)

(***************************************************************************)
(* Claims C14 and C15: least_conditional_part under the single decision x1 *)
(* on two small formulas.                                                  *)
(***************************************************************************)

\* least_conditional_part was called by LcpCall on the formula with the clauses
\* cs, in this order, after the decision i was assumed and propagated.
CalledOn(cs, i) ==
  /\ lcp.ret = "lcp_returned"
  /\ pc \in { "lcp_scan", "lcp_keys", "lcp_shrink", "lcp_emit", "lcp_returned" }
  /\ gp.i = i
  /\ Len(clauses) >= Len(cs)
  /\ [k \in 1..Len(cs) |-> clauses[k].lits] = cs
  /\ \A k \in 1..Len(clauses) : k > Len(cs) => clauses[k].redundant

\* The scan of the call is over.
ScanDone == pc \in { "lcp_keys", "lcp_shrink", "lcp_emit", "lcp_returned" }

\* {(x1 or x2), (not x1 or x2), (x1 or not x2)}
TwoVariableFormula == << <<1, 2>>, <<-1, 2>>, <<1, -2>> >>

\* C14, as stated: on {(x1 or x2), (not x1 or x2), (x1 or not x2)} under the
\* decision x1 least_conditional_part finds no unsatisfied clause, emits no
\* clause and returns false.
C14_NoClauseAndFalse ==
  CalledOn(TwoVariableFormula, 1) /\ pc = "lcp_returned" =>
    /\ lcp.neg_alpha_c = <<>>
    /\ ~lcp.produced
    /\ ~lcp.adding_a_clause

\* C14, amended: on that formula under the decision x1 (x2 follows, no conflict)
\* least_conditional_part finds no unsatisfied clause, so neg_alpha_c stays
\* empty, and its only candidate is the unit clause (x2) of the propagated key
\* x2; with globalbcp on and globalfiltertriv off, and unless the time budget
\* has run out, it passes (x2) to add_clause and returns true.
C14_UnitOfPropagatedKey ==
  CalledOn(TwoVariableFormula, 1) =>
    /\ ScanDone => lcp.neg_alpha_c = <<>>
    /\ pc \in { "lcp_shrink", "lcp_emit", "lcp_returned" } =>
         lcp.clauses_to_add = << <<2>> >>
    /\ pc = "lcp_returned" /\ opts.globalbcp /\ ~opts.globalfiltertriv /\ ~timedOut =>
         /\ lcp.produced
         /\ lcp.adding_a_clause
         /\ emitted.clause = <<2>>

\* The call on that formula has returned true after the unit clause (x2) went to
\* add_clause.
C14_Witness ==
  /\ CalledOn(TwoVariableFormula, 1)
  /\ pc = "lcp_returned"
  /\ lcp.produced
  /\ lcp.adding_a_clause
  /\ emitted.clause = <<2>>

\* {(x1 or x2 or x3), (not x1 or not x2)}
ThreeVariableFormula == << <<1, 2, 3>>, <<-1, -2>> >>

\* C15: on {(x1 or x2 or x3), (not x1 or not x2)} under the decision x1 there is
\* no conflict, the scan of the clauses adds no literal to neg_alpha_c, and no
\* bit of globalmarks is set at the end of the scan or later.
C15_NothingInNegAlphaC ==
  CalledOn(ThreeVariableFormula, 1) =>
    /\ pc \in { "lcp_scan", "lcp_keys" } => conflict = <<>> /\ ~unsat
    /\ ScanDone => lcp.neg_alpha_c = <<>>
    /\ globalmarks = {}

\* The scan has run on that formula under x1, which made x2 false.
C15_Witness ==
  /\ CalledOn(ThreeVariableFormula, 1)
  /\ pc = "lcp_keys"
  /\ trail = <<1, -2>>
  /\ lcp.times_touched # <<>>

(***************************************************************************)
(* Claim C16: the greedy set cover.                                        *)
(***************************************************************************)

\* The union of the coverage sets chosen so far.
ChosenUnion ==
  UNION { cover.subsets[cover.chosen_subsets[k]] : k \in 1..Len(cover.chosen_subsets) }

\* C16: for coverage sets that are subsets of the negated conditional part the
\* greedy selection terminates (the loop of greedySetCover chooses every set at
\* most once, so it makes at most one iteration per set) and returns a residual
\* that is a subset of the negated conditional part, with the union of the chosen
\* coverage sets equal to the negated conditional part minus the residual.
C16_CoverAndResidual ==
  /\ pc \in { "cover_loop", "cover_returned" } =>
       /\ Len(cover.chosen_subsets) <= Len(cover.subsets)
       /\ \A j, k \in 1..Len(cover.chosen_subsets) :
            cover.chosen_subsets[j] = cover.chosen_subsets[k] => j = k
  /\ pc = "cover_returned" =>
       /\ cover.uncovered \subseteq Range(cover.total_elements)
       /\ ChosenUnion = Range(cover.total_elements) \ cover.uncovered

\* greedySetCover has returned after choosing two sets and leaving a residual.
C16_Witness ==
  /\ pc = "cover_returned"
  /\ cover.curr_global_try = <<>>
  /\ Len(cover.chosen_subsets) = 2
  /\ Len(cover.subsets) = 3
  /\ cover.uncovered # {}

(***************************************************************************)
(* Claims C18-C20: what the drivers return, when they stop and where they  *)
(* leave the solver.                                                       *)
(***************************************************************************)

\* C18: global_preprocess returns 20 if and only if unsat is set at the moment it
\* returns, and 0 in every other case; it never returns 0 while unsat is set.
C18_TwentyIffUnsat ==
  pc = "gp_done" /\ ~opts.globalchessheur =>
    /\ res \in { 0, 20 }
    /\ res = 20 <=> unsat

\* global_preprocess has left its loop with unsat set and returned 20 from the
\* test after the loop.
C18_Witness ==
  /\ pc = "gp_done"
  /\ ~opts.globalchessheur
  /\ unsat
  /\ res = 20
  /\ gp.count <= max_var

\* global_preprocess goes past the time check of its outer loop and takes up a
\* candidate literal i.
StartsOuterCandidate ==
  /\ pc = "gp_outer"
  /\ gp.count <= max_var
  /\ ~(pc' = "gp_exit" /\ UNCHANGED <<clauses, vals, unsat>>)

\* global_preprocess goes past the time check of its loop over the touched
\* literals and takes up a literal j.
StartsInnerCandidate ==
  /\ pc = "gp_inner"
  /\ gp.pidx = 1
  /\ gp.tidx <= Len(gp.touched_literals)
  /\ pc' # "gp_single"

\* global_preprocess_chess takes up the next batch of assumptions.
StartsBatch == pc = "chess_round" /\ pc' \in { "lcp_scan", "chess_after_lcp" }

\* C19: in both drivers, once the elapsed time has exceeded the time budget, no
\* further candidate literal of the outer or the inner loop and no further batch
\* of assumptions is started.
C19_NoStartAfterTimeOut ==
  [][timedOut => ~(StartsOuterCandidate \/ StartsInnerCandidate \/ StartsBatch)]_vars

\* C20: whenever global_preprocess or global_preprocess_chess returns, the solver
\* is at decision level 0 with every probe assumption undone, before solve does
\* its own backtrack.
C20_DriversReturnAtLevelZero ==
  pc = "gp_done" => level = 0 /\ \A l \in Range(trail) : ~is_decision(Cur, l)

(***************************************************************************)
(* Claims about the limits (SpecLim)                                       *)
(***************************************************************************)
\* The step of solve that initialises the limits, and the state it leaves.
InitStep == pc = "init_limits" /\ pc' = "search"
LimitsInitialised == pc = "search" /\ res = 0
FiveLimits(l) == <<l.subsume, l.elim, l.probe, l.condition, l.reduce>>

\* C21: across the solve calls on one solver, preprocess-only calls included,
\* the subsume, elim, probe, condition and reduce limits are set only during
\* the first call: the limit initialisation of a later call, one made after
\* init_preprocessing_limits has set the limits (last.elim.marked is -1 from
\* then on), leaves the five limits unchanged.
C21_LaterCallsKeepFiveLimits ==
  [][InitStep /\ last.elim = -1 => FiveLimits(lim') = FiveLimits(lim)]_vars

\* C22 as stated: on an incremental call, the limits being initialised already,
\* init_search_limits keeps the restart limit and the stabilize limit.
C22_IncrementalKeepsRestartAndStabilize ==
  [][InitStep /\ ~preprocess_only /\ lim.initialized
       => lim'.restart = lim.restart /\ lim'.stabilize = lim.stabilize]_vars

\* C22 amended: after every call of init_search_limits, first or incremental,
\* the restart limit and the stabilize limit are the current conflicts plus
\* their interval.
C22_RestartAndStabilizeRecomputed ==
  LimitsInitialised /\ ~preprocess_only
    => /\ lim.restart = stats.conflicts + opts.restartint
       /\ lim.stabilize = stats.conflicts + opts.stabilizeint

\* An incremental call has recomputed them: the reduce limit is still the one
\* of an earlier call, the restart limit is not.
C22_Witness ==
  /\ LimitsInitialised /\ ~preprocess_only
  /\ lim.reduce # stats.conflicts + opts.reduceint
  /\ lim.restart = stats.conflicts + opts.restartint
  /\ lim.stabilize = stats.conflicts + opts.stabilizeint

C24_HardCaps ==
  LimitsInitialised /\ ~preprocess_only
    => /\ (lim.conflicts = -1) = (inc.conflicts < 0)
       /\ inc.conflicts >= 0 => lim.conflicts = stats.conflicts + inc.conflicts
       /\ (lim.decisions = -1) = (inc.decisions < 0)
       /\ inc.decisions >= 0 => lim.decisions = stats.decisions + inc.decisions

\* An increment of 0 with conflicts counted, next to an unlimited decision limit.
C24_Witness ==
  /\ LimitsInitialised /\ ~preprocess_only
  /\ inc.conflicts = 0 /\ stats.conflicts > 0 /\ lim.conflicts = stats.conflicts
  /\ inc.decisions < 0 /\ lim.decisions = -1

\* C25: init_search_limits swaps the two trackers, once, exactly when it
\* switches the mode from stable to non-stable, which it does on an incremental
\* call entered in stable mode that is not forced to stay stable; an
\* incremental call that keeps the mode keeps the trackers; the first call
\* initialises the current tracker and sets stable to
\* opts.stabilize && opts.stabilizeonly.
C25_SwapExactlyOnSwitch ==
  [][InitStep /\ ~preprocess_only =>
       LET switch == /\ lim.initialized
                     /\ stable
                     /\ ~(opts.stabilize /\ opts.stabilizeonly)
       IN  /\ switch = (stable /\ ~stable')
           /\ switch => averages' = [current |-> averages.saved,
                                     saved |-> averages.current]
           /\ lim.initialized /\ ~switch
                => stable' = stable /\ averages' = averages
           /\ ~lim.initialized
                => /\ stable' = (opts.stabilize /\ opts.stabilizeonly)
                   /\ averages' = [averages EXCEPT !.current = 0]]_vars

\* An incremental call has left non-stable mode with the trackers unequal.
C25_Witness ==
  /\ LimitsInitialised /\ ~preprocess_only
  /\ lim.reduce # stats.conflicts + opts.reduceint
  /\ opts.stabilize /\ ~opts.stabilizeonly
  /\ ~stable
  /\ averages.current > averages.saved

(***************************************************************************)
(* Claims about the drivers of global preprocessing (SpecGP)               *)
(***************************************************************************)
\* No conflict is pending and propagation has nothing left to assign.
AtFixpoint ==
  /\ conflict = <<>>
  /\ propagate(Cur).conflict = <<>>
  /\ propagate(Cur).vals = vals

\* The batch of the round about to start meets a conflict while its literals
\* are assumed.
BatchConflict ==
  /\ pc = "chess_round"
  /\ gp.count <= Min({ Len(asses), MaxRounds })
  /\ ~ChessAssume(backtrack(Cur, 0), asses[gp.count][1], 1).try_learn

\* C26: in global_preprocess_chess a conflict while the literals of a batch are
\* assumed suppresses the call of least_conditional_part for that batch only:
\* the round goes on to its end, from where 20 is returned if the UNSAT flag is
\* set and the next batch follows otherwise; a batch after the first starts
\* only at decision level 0 with propagation at fixpoint and UNSAT not set.
C26_ConflictSkipsOnlyItsBatch ==
  [][/\ BatchConflict => pc' = "chess_after_lcp" /\ UNCHANGED <<lcp, emitted>>
     /\ pc = "chess_after_lcp" =>
          IF unsat' THEN pc' = "gp_done" /\ res' = 20
          ELSE /\ pc' = "chess_round"
               /\ gp'.count = gp.count + 1
               /\ level' = 0
               /\ AtFixpoint']_vars

\* The second batch is about to start after the first one met a conflict:
\* least_conditional_part was not called and the learned unit is on the trail.
C26_Witness ==
  /\ pc = "chess_round"
  /\ gp.count = 2
  /\ lcp = NewFrame("gp_after_lcp")
  /\ emitted = NoEmission
  /\ trail # <<>>
  /\ ~unsat

\* C27: under the frequency-sorted ordering (opts.globalisort), iteration count
\* of global_preprocess probes the count-th variable of get_sorted_literals, the
\* first iteration the most frequent one, so that every variable of the order is
\* used as i.
C27_ProbesInSortedOrder ==
  pc = "gp_inner" /\ opts.globalisort => gp.i = gp.sorted_literals[gp.count]

\* The probe of candidate i alone met a conflict: the step of the outer loop
\* picked a candidate, did not reach the inner loop, and analysis left a level-0
\* fact or the UNSAT flag.
ConflictOnI ==
  /\ pc = "gp_outer" /\ pc' # pc
  /\ gp.count <= max_var /\ ~timedOut' /\ PickI # {}
  /\ pc' # "gp_inner"
  /\ trail' # backtrack(Cur, 0).trail \/ unsat'

GpCallsLcp == pc = "lcp_scan" /\ lcp.ret = "gp_after_lcp" /\ gp.i # 0 /\ gp.touched_literals # <<>>

\* C29: global_preprocess calls least_conditional_part only with UNSAT not set,
\* no conflict pending, propagation at fixpoint, i and the chosen polarity of j
\* both true as decisions, and the decision level exactly 2.
C29_LcpCalledUnderTwoDecisions ==
  GpCallsLcp =>
    /\ ~unsat
    /\ AtFixpoint
    /\ level = 2
    /\ val(Cur, gp.i) > 0 /\ is_decision(Cur, gp.i)
    /\ val(Cur, j_polar) > 0 /\ is_decision(Cur, j_polar)
    /\ Abs(gp.i) # Abs(j_polar)

\* The call under two decisions, the second one a negated touched literal.
C29_Witness ==
  /\ GpCallsLcp
  /\ level = 2
  /\ is_decision(Cur, gp.i) /\ is_decision(Cur, j_polar)
  /\ j_polar < 0
  /\ Len(trail) > 2

\* The clauses the scan looks at, and the false literals, not fixed, of those
\* among them that have no true literal.
ScannedClauses ==
  { k \in 1..Len(clauses) : ~clauses[k].garbage /\ (~clauses[k].redundant \/ opts.proof) }

FalseInUnsatisfied ==
  { l \in (-max_var..max_var) \ { 0 } :
      /\ val(Cur, l) < 0
      /\ ~Fixed(Cur, l)
      /\ \E k \in ScannedClauses :
           /\ l \in Range(clauses[k].lits)
           /\ \A m \in Range(clauses[k].lits) : val(Cur, m) <= 0 }

\* C30: after the clause scan of least_conditional_part neg_alpha_c holds, each
\* exactly once, the literals that are false, are not fixed and occur in a
\* scanned clause (not garbage, and not redundant unless a proof is traced)
\* that has no true literal, and no other literal.
C30_NegAlphaCOfUnsatisfiedClauses ==
  pc = "lcp_keys" =>
    /\ Range(lcp.neg_alpha_c) = FalseInUnsatisfied
    /\ Len(lcp.neg_alpha_c) = Cardinality(FalseInUnsatisfied)

\* A scan that took two literals in, met one of them in two clauses without a
\* true literal, and kept a false literal of a satisfied clause out.
C30_Witness ==
  /\ pc = "lcp_keys"
  /\ Len(lcp.neg_alpha_c) >= 2
  /\ \E l \in Range(lcp.neg_alpha_c) :
       Cardinality({ k \in ScannedClauses :
                       /\ l \in Range(clauses[k].lits)
                       /\ \A m \in Range(clauses[k].lits) : val(Cur, m) <= 0 }) >= 2
  /\ \E k \in ScannedClauses :
       \E l \in Range(clauses[k].lits) :
         /\ val(Cur, l) < 0 /\ ~Fixed(Cur, l)
         /\ l \notin Range(lcp.neg_alpha_c)

(***************************************************************************)
(* Claims about least_conditional_part and its helpers (SpecGP)            *)
(***************************************************************************)
\* The candidates are built and nothing was assigned since the scan.
CandidatesBuilt == pc = "lcp_shrink"

\* The keys: the literals with a touch count whose bit is not set.
Keys == { key \in DOMAIN lcp.times_touched : key \notin Range(lcp.neg_alpha_c) }

\* C31: every raw candidate clause of least_conditional_part is neg_alpha_c
\* followed by one key that is true, has a positive touch count, is not in
\* neg_alpha_c and is not a decision; every such key has its candidate, and a
\* key that is a decision has none.
C31_OneCandidatePerPropagatedKey ==
  CandidatesBuilt =>
    /\ \A k \in 1..Len(lcp.clauses_to_add) :
         LET c == lcp.clauses_to_add[k] IN
           /\ Len(c) = Len(lcp.neg_alpha_c) + 1
           /\ SubSeq(c, 1, Len(lcp.neg_alpha_c)) = lcp.neg_alpha_c
           /\ c[Len(c)] \in Keys
           /\ val(Cur, c[Len(c)]) > 0
           /\ lcp.times_touched[c[Len(c)]] > 0
           /\ ~is_decision(Cur, c[Len(c)])
    /\ \A key \in Keys :
         Cardinality({ k \in 1..Len(lcp.clauses_to_add) :
                         lcp.clauses_to_add[k][Len(lcp.neg_alpha_c) + 1] = key })
           = IF is_decision(Cur, key) THEN 0 ELSE 1

\* A candidate over a neg_alpha_c that is not empty, next to a decision key.
C31_Witness ==
  /\ CandidatesBuilt
  /\ Len(lcp.clauses_to_add) >= 1
  /\ lcp.neg_alpha_c # <<>>
  /\ \E key \in Keys : is_decision(Cur, key)

\* Antecedent literal a explains literal l of neg_alpha_c: for the binary-clause
\* shrink a live clause (a or not l) exists, for the propagation shrink the
\* negation of a, assumed at level 0 and propagated without conflict, makes l
\* false.
Explains(a, l) ==
  /\ ~Fixed(Cur, a)
  /\ IF opts.globalbcp
       THEN \E k \in 1..Len(clauses) :
              /\ ~clauses[k].garbage
              /\ Len(clauses[k].lits) = 2
              /\ Range(clauses[k].lits) = { a, -l }
       ELSE /\ Probe(backtrack(Cur, 0), -a).conflict = <<>>
            /\ val(Probe(backtrack(Cur, 0), -a), l) < 0

\* The shrink step runs bcp_shrink or propagate_shrink with shrinking enabled
\* and some antecedent literal explains a literal of neg_alpha_c.
ShrinkExplains ==
  /\ pc = "lcp_shrink"
  /\ ~opts.globalalphaagreedy /\ ~opts.globalnoshrink
  /\ \E a \in Range(lcp.alpha_a), l \in Range(lcp.neg_alpha_c) : Explains(a, l)

\* C32: with shrinking enabled and bcp_shrink or propagate_shrink selected,
\* when some antecedent literal explains a literal of neg_alpha_c the emission
\* of least_conditional_part has useful antecedent literals to emit the one
\* shrunk clause from and does not go through the raw candidates.
C32_ShrunkClauseInsteadOfCandidates ==
  [][ShrinkExplains /\ pc' = "lcp_emit" => lcp'.alpha_a_useful # <<>>]_vars

\* The shrink step runs greedy_sort_alpha_a.
GreedySelected ==
  pc = "lcp_shrink" /\ opts.globalalphaagreedy /\ ~opts.globalchessheur

\* What the loop of greedy_sort_alpha_a collects: the antecedents with a coverage
\* set that is not empty, and their coverage sets.
Collected ==
  GreedyLoop([st |-> Cur, alpha_a_useful |-> <<>>, alpha_a_propagated |-> <<>>],
             lcp.alpha_a, lcp.neg_alpha_c, 1)

\* C33: with greedy selection on and the chessboard heuristic off the useful
\* antecedents are antecedents with a coverage set, the residual is what of
\* neg_alpha_c is left uncovered, and the selection stops only when no coverage
\* set holds a literal of the residual any more.
C33_GreedyMaximumCoverage ==
  [][GreedySelected /\ pc' = "lcp_emit" =>
       /\ Range(lcp'.alpha_a_useful) \subseteq Range(Collected.alpha_a_useful)
       /\ Range(lcp'.neg_alpha_c_minus_c0) \subseteq Range(lcp.neg_alpha_c)
       /\ \A k \in 1..Len(Collected.alpha_a_propagated) :
            Collected.alpha_a_propagated[k] \cap Range(lcp'.neg_alpha_c_minus_c0) = {}]_vars

\* The step calls add_clause: an emission step that is neither the return nor the
\* time check, and whose clause the triviality filter let through.
AddClauseCalled ==
  /\ pc = "lcp_emit"
  /\ lcp' # lcp /\ lcp'.adding_a_clause
  /\ opts.globalfiltertriv => ~check_if_clause_trivial(Cur, emitted'.clause).trivial

\* The solver state add_clause is called in.
BeforeAddClause ==
  IF opts.globalfiltertriv THEN check_if_clause_trivial(Cur, emitted'.clause).st ELSE Cur

\* What add_clause leaves of the assignment and the clause database.
Untouched(st) ==
  /\ vals' = st.vals /\ vlevel' = st.vlevel /\ trail' = st.trail
  /\ unsat' = st.unsat /\ level' = st.level

\* C34: add_clause changes nothing with learning off; with learning on a clause
\* of one literal becomes one unit assignment (a level-0 fact, or UNSAT when it
\* is refuted there) and no clause is inserted, and a longer clause becomes one
\* redundant clause appended to the database with no assignment changed; the
\* temporary clause is empty afterwards in every case.
C34_AddClauseFrame ==
  [][AddClauseCalled =>
       /\ emitted'.buffer = <<>>
       /\ ~opts.globallearn => clauses' = BeforeAddClause.clauses /\ Untouched(BeforeAddClause)
       /\ opts.globallearn /\ Len(emitted'.clause) = 1 =>
            /\ clauses' = BeforeAddClause.clauses
            /\ unsat' \/ (val(Cur', emitted'.clause[1]) > 0 /\ Fixed(Cur', emitted'.clause[1]))
       /\ opts.globallearn /\ Len(emitted'.clause) > 1 =>
            /\ Len(clauses') = Len(BeforeAddClause.clauses) + 1
            /\ SubSeq(clauses', 1, Len(BeforeAddClause.clauses)) = BeforeAddClause.clauses
            /\ clauses'[Len(clauses')].redundant
            /\ Range(clauses'[Len(clauses')].lits) = Range(emitted'.clause)
            /\ Untouched(BeforeAddClause)]_vars

\* add_clause has inserted a clause of more than one literal after the
\* triviality filter ran.
C34_Witness ==
  /\ opts.globallearn /\ opts.globalfiltertriv
  /\ Len(emitted.clause) > 1
  /\ emitted.after # emitted.before

\* The clause that goes through the filter in the next emission step.
Checked ==
  IF lcp.alpha_a_useful = <<>> \/ opts.globalnoshrink
    THEN lcp.clauses_to_add[lcp.i + 1]
    ELSE lcp.neg_alpha_c_minus_c0 \o lcp.alpha_a_useful

\* The negations of the literals of c from literal k on are assumed and
\* propagated one after the other, literals that are assigned are passed over:
\* "conflict" when a propagation fails, "end" when the literals are exhausted.
RECURSIVE WalkSkipping(_, _, _)
WalkSkipping(st, c, k) ==
  IF k > Len(c) THEN "end"
  ELSE IF val(st, c[k]) # 0 THEN WalkSkipping(st, c, k + 1)
  ELSE IF Probe(st, -c[k]).conflict # <<>> THEN "conflict"
  ELSE WalkSkipping(Probe(st, -c[k]), c, k + 1)

\* The same walk that stops with "true" at a literal found true at its turn.
RECURSIVE Walk(_, _, _)
Walk(st, c, k) ==
  IF k > Len(c) THEN "end"
  ELSE IF val(st, c[k]) > 0 THEN "true"
  ELSE IF val(st, c[k]) < 0 THEN Walk(st, c, k + 1)
  ELSE IF Probe(st, -c[k]).conflict # <<>> THEN "conflict"
  ELSE Walk(Probe(st, -c[k]), c, k + 1)

\* C35 as stated: check_if_clause_trivial returns true exactly when the clause
\* is longer than globalmaxlen or the walk over the negated literals from level 0,
\* passing over true and false literals, ends in a conflict.
C35_TrivialIffTooLongOrConflict ==
  [][TrivialCheckStep =>
       (lcp'.is_trivial <=>
          \/ Len(Checked) > opts.globalmaxlen
          \/ WalkSkipping(backtrack(Cur, 0), Checked, 1) = "conflict")]_vars

\* C35 amended: it returns true exactly when the clause is longer than
\* globalmaxlen, or the walk from level 0 comes to a literal that is true at its
\* turn, or a propagation of the walk ends in a conflict; only false literals are
\* passed over.
C35_TrivialIffTooLongOrTrueOrConflict ==
  [][TrivialCheckStep =>
       (lcp'.is_trivial <=>
          \/ Len(Checked) > opts.globalmaxlen
          \/ Walk(backtrack(Cur, 0), Checked, 1) \in { "true", "conflict" })]_vars

\* A raw candidate of admissible length was found trivial and holds a literal
\* that is true at level 0.
C35_Witness ==
  /\ pc = "lcp_emit" /\ opts.globalfiltertriv
  /\ lcp.is_trivial /\ lcp.i >= 1
  /\ lcp.alpha_a_useful = <<>>
  /\ Len(lcp.clauses_to_add[lcp.i]) <= opts.globalmaxlen
  /\ \E l \in Range(lcp.clauses_to_add[lcp.i]) : val(Cur, l) > 0

\* The shrink step runs propagate_shrink.
PropagateShrinkSelected ==
  pc = "lcp_shrink" /\ ~opts.globalalphaagreedy /\ ~opts.globalbcp

\* C36: propagate_shrink returns false when a conflict persists after analysis
\* and true when its loop over the antecedent literals completes, so that
\* least_conditional_part returns early in the first case and goes on to the
\* emission in the second.
C36_PropagateShrinkReturnsBoolean ==
  [][PropagateShrinkSelected =>
       IF propagate_shrink(Cur, lcp.alpha_a, 1).returned = "false"
         THEN pc' = lcp.ret
         ELSE pc' = "lcp_emit"]_vars

\* global_preprocess is at 'search_assume_decision (i);' of its inner loop: the
\* propagation after the backtrack to level 0 has succeeded.
AssumesIInInnerLoop == pc = "gp_retry" /\ propagate(Cur).conflict = <<>>

\* C37: a literal handed to search_assume_decision by the global preprocessing
\* is unassigned in the state it is assumed in; stated for the assumption of i in
\* the inner loop of global_preprocess, which follows a propagation to fixpoint.
C37_AssumedLiteralIsUnassigned ==
  AssumesIInInnerLoop => val(propagate(Cur), gp.i) = 0

\* global_preprocess is at the test of 'while (!propagate ()) { analyze (); }'
\* of its inner loop.
AtRetryLoopTest == pc = "gp_retry"

\* C38: the retry loop of global_preprocess exits once the UNSAT flag is set: at
\* a test of the loop with unsat set the propagation does not fail again, so
\* that analyze is not repeated and the procedure comes to its return of 20.
C38_RetryLoopExitsOnceUnsat ==
  AtRetryLoopTest /\ unsat => propagate(Cur).conflict = <<>>

\* C39: when add_clause sorts its clause by decision level and hands it to the
\* constructor of the learned clause, every literal of the clause is assigned,
\* and the clause that is inserted is in descending order of the levels of the
\* assignment; also when the triviality filter ran before.
C39_SortedClauseIsAssigned ==
  [][AddClauseCalled /\ opts.globallearn /\ Len(emitted'.clause) > 1 =>
       /\ \A l \in Range(emitted'.clause) : val(BeforeAddClause, l) # 0
       /\ \A a, b \in 1..Len(emitted'.clause) :
            a < b => BeforeAddClause.vlevel[Abs(clauses'[Len(clauses')].lits[a])]
                       >= BeforeAddClause.vlevel[Abs(clauses'[Len(clauses')].lits[b])]]_vars

\* The indices greedySetCoverSpecial returns to greedy_sort_alpha_a.
ChosenIndices ==
  greedySetCoverSpecial(global_try, lcp.alpha_a, Collected.alpha_a_propagated,
                        lcp.neg_alpha_c).chosen_subsets

\* C40: when greedy_sort_alpha_a calls greedySetCoverSpecial the list of coverage
\* sets has one entry per literal of alpha_a, and every index returned is an
\* index of alpha_a_useful.
C40_OneCoverageSetPerAntecedent ==
  GreedySelected =>
    /\ Len(Collected.alpha_a_propagated) = Len(lcp.alpha_a)
    /\ \A k \in 1..Len(ChosenIndices) :
         ChosenIndices[k] \in 1..Len(Collected.alpha_a_useful)

====
